---- MODULE Spec2Model ----
(***************************************************************************)
(* Model of the three pipeline runners of localPipeline:                   *)
(*   GitHubActionsRunner  (githubActionsRunner.ts)                         *)
(*   CodeMagicRunner      (codemagicRunner.ts, lines 53-455)               *)
(*   AzurePipelineRunner  (codemagicRunner.ts, lines 514-827)              *)
(* of PipelineDetector and of main (index.ts).                             *)
(* A run starts at executeWorkflow / executePipeline with a decoded        *)
(* document.  The document is an input that the traversal reads once, in   *)
(* declaration order: the model draws each stage, job and step from its    *)
(* bounded set at the moment the loop reads it.                            *)
(***************************************************************************)
EXTENDS Integers, Sequences, FiniteSets, TLC

\* ------------------------------------------------------------------ bounds
MaxStages == 2
MaxJobs == 2
MaxSteps == 3
MaxText == 4

\* ------------------------------------------------------- environment maps
Keys == {"FOO", "PATH", "Build.SourcesDirectory", "CM_BUILD_DIR", "CM_BUILD_OUTPUT_DIR",
         "FCI_BUILD_DIR", "FLUTTER_ROOT"}
Undef == "undefined"
EmptyMap == [k \in Keys |-> Undef]

\* { ...a, ...b }
Merge(a, b) == [k \in Keys |-> IF b[k] # Undef THEN b[k] ELSE a[k]]

\* the host process's ambient environment
processEnv == [EmptyMap EXCEPT !["PATH"] = "ambient"]

\* an env / variables block written at one level of the document
LayerSet(tag) == {EmptyMap, [EmptyMap EXCEPT !["FOO"] = tag]}

\* ------------------------------------------------------------ script text
\* A script text is a sequence of symbols: "$(" and ")" as the regular
\* expression of replaceVariables reads them, and words.
Words == {"FOO", "Build.SourcesDirectory", "constructor"}
Symbols == {"$(", ")"} \cup Words

\* the script texts a document may carry
Texts == UNION {[1..n -> Symbols] : n \in 0..MaxText}

\* a script text without any "$(" or ")"
PlainText == <<"FOO">>

\* property names every object literal inherits from Object.prototype
ObjectPrototypeNames == {"constructor"}

\* ------------------------------------------------------------- documents
\* Every document uses one family of optional fields: env / variables
\* blocks, if / condition expressions, or needs / dependsOn lists.
Features == {"env", "condition", "needs"}

\* Azure documents of bare steps that vary the script text ("subst") or the
\* task / script / bash / powershell fields of a step ("kinds")
StepFeatures == {"subst", "kinds"}

DefNames == {"build", "test"}

\* the names a `*name` entry of `scripts` may carry
RefNames == DefNames \cup ObjectPrototypeNames

\* an env / variables block at one level of a document d
EnvSet(d, tag) == IF d.feature = "env" THEN LayerSet(tag) ELSE {EmptyMap}

\* an if / condition field, by the value its expression would have
CondSet(d) == IF d.feature = "condition" THEN {"none", "false"} ELSE {"none"}

\* a needs / dependsOn field, by the position of the unit it names
NeedsSet(d) == IF d.feature = "needs" THEN {"none", "later"} ELSE {"none"}

NoStep == [uses |-> FALSE, run |-> FALSE, task |-> FALSE, script |-> FALSE,
           bash |-> FALSE, powershell |-> FALSE,
           continueOnError |-> FALSE, env |-> EmptyMap, condition |-> "none",
           form |-> "none", ref |-> "build"]

\* GitHubStep: uses / run / env / if
GitHubStepSet(d) ==
    {[NoStep EXCEPT !.uses = u, !.run = r, !.env = e, !.condition = c] :
        u \in BOOLEAN, r \in BOOLEAN, e \in EnvSet(d, "step"), c \in CondSet(d)}

\* AzureStep: task / script|bash|powershell / continueOnError / env / condition
AzureStepSet(d) ==
    CASE d.feature = "subst" -> {[NoStep EXCEPT !.script = TRUE]}
      [] d.feature = "kinds" ->
            {[NoStep EXCEPT !.task = t, !.script = s, !.bash = b,
                            !.powershell = p, !.continueOnError = x] :
                t \in BOOLEAN, s \in BOOLEAN, b \in BOOLEAN,
                p \in BOOLEAN, x \in BOOLEAN}
      [] OTHER ->
            {[NoStep EXCEPT !.task = t, !.script = s, !.continueOnError = x,
                            !.env = e, !.condition = c] :
                t \in BOOLEAN, s \in BOOLEAN, x \in BOOLEAN,
                e \in EnvSet(d, "step"), c \in CondSet(d)}

\* an entry of CodeMagic `scripts`: inline object, command string, reference
CodeMagicStepSet(d) ==
    {[NoStep EXCEPT !.form = "inline"], [NoStep EXCEPT !.form = "direct"]}
    \cup {[NoStep EXCEPT !.form = "ref", !.ref = n] : n \in RefNames}

\* a list field of the document: absent, or present with a length
ListDecl(max) == {[present |-> FALSE, len |-> 0]}
                 \cup {[present |-> TRUE, len |-> n] : n \in 0..max}

\* GitHubJob / AzureJob / AzureStage: env|variables, needs|dependsOn, if|condition
UnitSet(d, max) == [env : EnvSet(d, "unit"), needs : NeedsSet(d),
                    condition : CondSet(d), list : ListDecl(max)]
NoUnit == [env |-> EmptyMap, needs |-> "none", condition |-> "none",
           list |-> [present |-> FALSE, len |-> 0]]

\* outcome of execSync
Outcomes == {"ok", "nonzero", "nostart"}

Vendors == {"github", "azure", "codemagic"}

\* the top level of a decoded document
NoDoc == [feature |-> "env", text |-> PlainText, list |-> <<>>,
          workflows |-> FALSE,
          stages |-> FALSE, jobs |-> FALSE, steps |-> FALSE, scripts |-> FALSE,
          env |-> EmptyMap, variables |-> [present |-> FALSE, vars |-> EmptyMap],
          environment |-> [present |-> FALSE, vars |-> EmptyMap],
          flutter |-> FALSE, definitions |-> {}, timeout |-> Undef]

\* an optional block: when absent its content is immaterial
OptBlockSet(f, tag) ==
    {[present |-> FALSE, vars |-> EmptyMap]}
    \cup (IF f \in {"env", "subst"}
          THEN {[present |-> TRUE, vars |-> v] : v \in LayerSet(tag)}
          ELSE {})

\* GitHubWorkflow: env, jobs
GitHubDocSet ==
    UNION {{[NoDoc EXCEPT !.feature = f, !.jobs = j, !.env = e] :
              j \in BOOLEAN,
              e \in IF f = "env" THEN LayerSet("workflow") ELSE {EmptyMap}} :
           f \in Features}

\* the root lists an Azure document has: none, exactly one, or all three
AzureRootShapes ==
    {[stages |-> FALSE, jobs |-> FALSE, steps |-> FALSE],
     [stages |-> TRUE, jobs |-> FALSE, steps |-> FALSE],
     [stages |-> FALSE, jobs |-> TRUE, steps |-> FALSE],
     [stages |-> FALSE, jobs |-> FALSE, steps |-> TRUE],
     [stages |-> TRUE, jobs |-> TRUE, steps |-> TRUE]}

\* AzurePipeline: variables, stages, jobs, steps
AzureDocSet ==
    UNION {{[NoDoc EXCEPT !.feature = f, !.stages = r.stages, !.jobs = r.jobs,
                          !.steps = r.steps, !.variables = v] :
              r \in AzureRootShapes, v \in OptBlockSet(f, "workflow")} :
           f \in Features}

\* CodeMagicConfig.definitions and the selected CodeMagicWorkflow
CodeMagicDocSet ==
    {[NoDoc EXCEPT !.workflows = TRUE, !.scripts = s, !.environment = v,
                   !.flutter = f, !.definitions = d] :
        s \in BOOLEAN, v \in OptBlockSet("env", "workflow"), f \in BOOLEAN,
        d \in SUBSET DefNames}
    \cup {[NoDoc EXCEPT !.definitions = d] : d \in SUBSET DefNames}

\* AzurePipeline with bare steps: one script text for its steps, or steps
\* that vary task / script / bash / powershell
AzureStepDocSet ==
    {[NoDoc EXCEPT !.feature = "subst", !.steps = TRUE, !.text = t, !.variables = v] :
        t \in Texts, v \in OptBlockSet("subst", "workflow")}
    \cup {[NoDoc EXCEPT !.feature = "kinds", !.steps = TRUE]}

DocSet(v) == CASE v = "github" -> GitHubDocSet
               [] v = "azure" -> AzureDocSet
               [] v = "codemagic" -> CodeMagicDocSet

\* ------------------------------------------------------- pure functions
\* GitHubActionsRunner.executeWorkflow: const globalEnv = {...process.env, ...workflow.env}
GitHubGlobalEnv(d) == Merge(processEnv, d.env)

\* GitHubActionsRunner.executeJob: const jobEnv = {...globalEnv, ...job.env}
GitHubJobEnv(genv, job) == Merge(genv, job.env)

\* GitHubActionsRunner.executeStep: const stepEnv = {...env, ...step.env}
GitHubStepEnv(env, step) == Merge(env, step.env)

\* variant: `run` is tested before `uses`
GitHubStepKindRunFirst(step) ==
    IF step.run THEN "Script"
    ELSE IF step.uses THEN "PlatformAction"
    ELSE "Empty"

\* GitHubActionsRunner.executeStep: which branch the step takes
GitHubStepKind(step) ==
    IF step.uses THEN "PlatformAction"
    ELSE IF step.run THEN "Script"
    ELSE "Empty"

\* variant: the catch block of execSync returns true
GitHubScriptResultIgnoresFailure(step, outcome) == TRUE

\* GitHubActionsRunner.executeScript: the value returned for an execSync outcome
GitHubScriptResult(step, outcome) == outcome = "ok"

\* AzurePipelineRunner.initializeVariables
InitializeVariables(vars, block) ==
    IF ~block.present THEN vars
    ELSE [Merge(vars, block.vars) EXCEPT !["Build.SourcesDirectory"] = "cwd"]

\* variant: the script fields are tested before `task`
AzureStepKindScriptFirst(step) ==
    IF step.script \/ step.bash \/ step.powershell THEN "Script"
    ELSE IF step.task THEN "PlatformAction"
    ELSE "Empty"

\* variant: the test reads step.script || step.powershell
AzureStepKindNoBash(step) ==
    IF step.task THEN "PlatformAction"
    ELSE IF step.script \/ step.powershell THEN "Script"
    ELSE "Empty"

\* AzurePipelineRunner.executeStep: which branch the step takes
AzureStepKind(step) ==
    IF step.task THEN "PlatformAction"
    ELSE IF step.script \/ step.bash \/ step.powershell THEN "Script"
    ELSE "Empty"

\* this.variables[varName]: an own property, else one inherited from
\* Object.prototype, else undefined
VariableLookup(vars, name) ==
    IF Len(name) = 1 /\ name[1] \in Keys /\ vars[name[1]] # Undef
    THEN vars[name[1]]
    ELSE IF Len(name) = 1 /\ name[1] \in ObjectPrototypeNames
    THEN "function Object()"
    ELSE Undef

\* String(value) as script text: a value that is written `$(Name)` reads as
\* the three symbols of a token, one written `$(Name` as the first two of
\* them, any other value as one symbol
StringOf(value) ==
    CASE value = "$(FOO)" -> <<"$(", "FOO", ")">>
      [] value = "$(FOO" -> <<"$(", "FOO">>
      [] value = "$(Build.SourcesDirectory)" -> <<"$(", "Build.SourcesDirectory", ")">>
      [] OTHER -> <<value>>

\* the position of the first ")" at or after position i, 0 when there is none
RECURSIVE FirstClose(_, _)
FirstClose(text, i) ==
    IF i > Len(text) THEN 0
    ELSE IF text[i] = ")" THEN i
    ELSE FirstClose(text, i + 1)

\* text.replace(/\$\(([^)]+)\)/g, ...) from position i on: a match starts at
\* a "$(" and runs to the first ")" behind it, with at least one symbol between
RECURSIVE ReplaceFrom(_, _, _)
ReplaceFrom(text, i, vars) ==
    IF i > Len(text) THEN <<>>
    ELSE LET j == FirstClose(text, i + 1) IN
         IF text[i] = "$(" /\ j >= i + 2
         THEN LET value == VariableLookup(vars, SubSeq(text, i + 1, j - 1)) IN
              (IF value # Undef THEN StringOf(value) ELSE SubSeq(text, i, j))
                  \o ReplaceFrom(text, j + 1, vars)
         ELSE <<text[i]>> \o ReplaceFrom(text, i + 1, vars)

\* AzurePipelineRunner.replaceVariables
ReplaceVariables(text, vars) == ReplaceFrom(text, 1, vars)

\* AzurePipelineRunner.executeScript: const env = {...process.env, ...step.env, ...this.variables}
AzureScriptEnv(step, vars) == Merge(Merge(processEnv, step.env), vars)

\* variant: the catch block returns false whatever continueOnError says
AzureScriptResultNoContinue(step, outcome) == outcome = "ok"

\* variant: the catch block returns !step.continueOnError
AzureScriptResultInverted(step, outcome) ==
    IF outcome = "ok" THEN TRUE ELSE ~step.continueOnError

\* AzurePipelineRunner.executeScript: the value returned for an execSync outcome
AzureScriptResult(step, outcome) ==
    IF outcome = "ok" THEN TRUE ELSE step.continueOnError

\* CodeMagicRunner.parseScriptDefinitions
ParseScriptDefinitions(defs, d) == defs \cup d.definitions

\* CodeMagicRunner.setupEnvironment
SetupEnvironment(env, d) ==
    IF ~d.environment.present THEN env
    ELSE [Merge(env, d.environment.vars) EXCEPT !["CM_BUILD_DIR"] = "cwd",
                                                !["CM_BUILD_OUTPUT_DIR"] = "cwd/build",
                                                !["FCI_BUILD_DIR"] = "cwd"]

\* CodeMagicRunner.setupMobileEnvironment
SetupMobileEnvironment(env, d) ==
    IF ~d.environment.present THEN env
    ELSE IF d.flutter THEN [env EXCEPT !["FLUTTER_ROOT"] = "/flutter"]
    ELSE env

\* this.scriptDefinitions[refName]: an own entry, else a property inherited
\* from Object.prototype, else undefined
ScriptDefinitionLookup(defs, n) ==
    IF n \in defs THEN "definition"
    ELSE IF n \in ObjectPrototypeNames THEN "inherited"
    ELSE "undefined"

\* CodeMagicRunner.executeScripts: which branch the entry takes
CodeMagicStepKind(step, defs) ==
    IF step.form = "ref" /\ ScriptDefinitionLookup(defs, step.ref) = "undefined"
    THEN "Empty"
    ELSE "Script"

\* execSync(script.script): an inherited property has no `script`, and
\* execSync(undefined) throws before any process is started
CodeMagicOutcomes(step, defs) ==
    IF step.form = "ref" /\ ScriptDefinitionLookup(defs, step.ref) = "inherited"
    THEN {"invalid"}
    ELSE Outcomes

\* variant: const env = {...this.environment}
CodeMagicScriptEnvNoAmbient(env) == env

\* CodeMagicRunner.executeScriptContent: const env = {...process.env, ...this.environment}
CodeMagicScriptEnv(env) == Merge(processEnv, env)

\* CodeMagicRunner.executeScriptContent: the value returned for an execSync outcome
CodeMagicScriptResult(step, outcome) == outcome = "ok"

\* ------------------------------------------------------ PipelineDetector
\* enum PipelineType
PipelineType == [GITHUB_ACTIONS |-> "github-actions", AZURE_DEVOPS |-> "azure-devops",
                 CODEMAGIC |-> "codemagic", UNKNOWN |-> "unknown"]

\* the top-level keys of a decoded file the detector reads; "flutter" stands
\* for environment.flutter / xcode / android_signing
ContentKeys == {"on", "jobs", "trigger", "pr", "pool", "stages", "workflows",
                "definitions", "flutter"}

\* where a file lies and what it is called
Locations == {"workflows-dir", "elsewhere"}
FileNames == {"azure-pipelines.yml", "codemagic.yaml", "ci.yml"}

\* what yaml.load gives for the file: a mapping, a scalar / nothing, or an error
Parses == {"object", "scalar", "error"}

NoFile == [exists |-> FALSE, location |-> "elsewhere", name |-> "ci.yml",
           parse |-> "scalar", keys |-> {}]

\* a file on disk; keys holds the keys whose value is set
FileSet ==
    {NoFile}
    \cup {[exists |-> TRUE, location |-> l, name |-> n, parse |-> "object", keys |-> ks] :
            l \in Locations, n \in FileNames, ks \in SUBSET ContentKeys}
    \cup {[exists |-> TRUE, location |-> l, name |-> n, parse |-> p, keys |-> {}] :
            l \in Locations, n \in FileNames, p \in {"scalar", "error"}}

\* PipelineDetector.detectFromFileContent
DetectFromFileContent(f) ==
    LET has(k) == k \in f.keys
    IN IF f.parse # "object" THEN PipelineType.UNKNOWN
       ELSE IF has("on") \/ has("jobs") THEN PipelineType.GITHUB_ACTIONS
       ELSE IF has("trigger") \/ has("pr") \/ has("pool") \/ has("stages")
               \/ (has("jobs") /\ ~has("on"))
       THEN PipelineType.AZURE_DEVOPS
       ELSE IF has("workflows") \/ has("definitions") \/ has("flutter")
       THEN PipelineType.CODEMAGIC
       ELSE PipelineType.UNKNOWN

\* the answer of the file-name and location tests of detectFromFile, "none"
\* when they give no answer
DetectFromFileName(f) ==
    IF f.location = "workflows-dir" THEN PipelineType.GITHUB_ACTIONS
    ELSE IF f.name = "azure-pipelines.yml" THEN PipelineType.AZURE_DEVOPS
    ELSE IF f.name = "codemagic.yaml" THEN PipelineType.CODEMAGIC
    ELSE "none"

\* PipelineDetector.detectFromFile
DetectFromFile(f) ==
    IF ~f.exists THEN PipelineType.UNKNOWN
    ELSE IF DetectFromFileName(f) # "none" THEN DetectFromFileName(f)
    ELSE DetectFromFileContent(f)

\* ----------------------------------------------------------------- state
VARIABLES vendor, doc, pc, result, cause,
          globalEnv, jobEnv, variables, environment, scriptDefinitions,
          nStages, si, curStage, nJobs, ji, curJob, nSteps, ti,
          last, unitEv, anyDeclared, absorbed, runs,
          file, detected, docB, reruns, args, tree, cli, calls

vars == <<vendor, doc, pc, result, cause,
          globalEnv, jobEnv, variables, environment, scriptDefinitions,
          nStages, si, curStage, nJobs, ji, curJob, nSteps, ti,
          last, unitEv, anyDeclared, absorbed, runs,
          file, detected, docB, reruns, args, tree, cli, calls>>

NoLast == [i |-> 0, step |-> NoStep, kind |-> "Empty", ran |-> FALSE,
           env |-> EmptyMap, script |-> <<>>, outcome |-> "none", ok |-> TRUE]

\* the latest unit started or finished
UnitEv(e, s, j) == [ev |-> e, s |-> s, j |-> j]
NoUnitEv == UnitEv("none", 0, 0)

\* what executePipeline did: the steps it visited and the value it returned
NoRun == [trace |-> <<>>, result |-> "none", root |-> "none"]

\* the runs of one step list under each root shape
NoRuns == [steps |-> NoRun, jobs |-> NoRun, stages |-> NoRun, all |-> NoRun]

\* the fields of a runner that outlive a call of execute
FreshRunner == [variables |-> EmptyMap, environment |-> EmptyMap,
                scriptDefinitions |-> {}]

\* what one call of execute did: the steps it visited, the value it
\* returned and the runner it left behind
NoExecution == [trace |-> <<>>, result |-> "none", runner |-> FreshRunner]

\* the calls of execute compared with each other
NoReruns == [first |-> NoExecution, again |-> NoExecution, second |-> NoExecution,
             fresh |-> NoExecution, targeted |-> NoExecution, target |-> "none"]

\* main: where it stands, the type and path it settled on, what the selector
\* was asked and answered, what execute did and returned, the exit code
NoCli == [pc |-> "main", pipelineType |-> "none", path |-> "none",
          asked |-> "none", answer |-> "none", names |-> {}, ran |-> "none",
          run |-> NoExecution, exitCode |-> 0]

\* a freshly constructed runner, before execute
InitRunner ==
    /\ pc = "start"
    /\ result = "none"
    /\ cause = "none"
    /\ globalEnv = EmptyMap
    /\ jobEnv = EmptyMap
    /\ variables = EmptyMap
    /\ environment = EmptyMap
    /\ scriptDefinitions = {}
    /\ nStages = 0 /\ si = 0 /\ curStage = NoUnit
    /\ nJobs = 0 /\ ji = 0 /\ curJob = NoUnit
    /\ nSteps = 0 /\ ti = 0
    /\ last = NoLast
    /\ unitEv = NoUnitEv
    /\ anyDeclared = FALSE
    /\ absorbed = FALSE
    /\ runs = NoRuns

\* the value of a variable that belongs to a part of the program the
\* specification at hand does not run
Absent == <<>>

\* no file is handed to the detector
NoDetection ==
    /\ file = Absent
    /\ detected = "none"

\* the runner is used for one document only
NoRerun ==
    /\ docB = Absent
    /\ reruns = Absent

\* the runner is called directly, not from the command line
NoCommandLine ==
    /\ args = Absent
    /\ tree = Absent
    /\ cli = Absent

\* execute is not called under several options
NoOptions == calls = Absent

Init ==
    /\ vendor \in Vendors
    /\ doc \in DocSet(vendor)
    /\ InitRunner
    /\ NoDetection
    /\ NoRerun
    /\ NoCommandLine
    /\ NoOptions

docVars == <<vendor, doc>>
detectVars == <<file, detected>>
rerunVars == <<docB, reruns>>
cliVars == <<args, tree, cli>>
optionVars == <<calls>>
envVars == <<globalEnv, jobEnv, variables, environment, scriptDefinitions>>
stageVars == <<nStages, si, curStage>>
jobVars == <<nJobs, ji, curJob>>
stepVars == <<nSteps, ti, last>>

\* ------------------------------------------------------------ traversal
\* for (const stage of stages): the element the k-th iteration visits
StageIndex(k, n) == k

\* variant: the jobs are visited last-declared first
JobIndexReversed(k, n) == n + 1 - k

\* for (const job of jobs) / for (const [jobName, job] of Object.entries(workflow.jobs))
JobIndex(k, n) == k

\* variant: for (let i = steps.length - 1; i >= 0; i--)
StepIndexReversed(k, n) == n + 1 - k

\* variant: every pass of the loop reads steps[0]
StepIndexStuck(k, n) == 1

\* for (let i = 0; i < steps.length; i++)
StepIndex(k, n) == k

StepRec(i, step, kind, o, ok, env, script) ==
    [i |-> i, step |-> step, kind |-> kind, ran |-> (kind = "Script"),
     env |-> env, script |-> script, outcome |-> o, ok |-> ok]

\* a script failed and the step still returned true
Absorbed(r) == r.ran /\ r.outcome # "ok" /\ r.ok

\* variant: a failed unit is logged and the loop goes on with the next job
FailContinues(c) ==
    /\ pc' = "jobs"
    /\ result' = result
    /\ cause' = c

\* a return of false, or a thrown error caught by the enclosing try: the run ends
Fail(c) ==
    /\ pc' = "done"
    /\ result' = "false"
    /\ cause' = c

\* variant: the end of the traversal returns false
SucceedReturnsFalse ==
    /\ pc' = "done"
    /\ result' = "false"
    /\ cause' = "none"

\* the traversal ran to its end: return true
Succeed ==
    /\ pc' = "done"
    /\ result' = "true"
    /\ cause' = "none"

\* ------------------------------------------------- GitHubActionsRunner
GitHubExecuteWorkflow ==
    /\ vendor = "github" /\ pc = "start"
    /\ globalEnv' = GitHubGlobalEnv(doc)
    /\ IF ~doc.jobs
       THEN /\ Fail("throw")
            /\ UNCHANGED jobVars
       ELSE /\ \E n \in 0..MaxJobs : nJobs' = n
            /\ ji' = 0
            /\ pc' = "jobs"
            /\ UNCHANGED <<curJob, result, cause>>
    /\ UNCHANGED <<docVars, optionVars, detectVars, rerunVars, cliVars, runs, jobEnv, variables, environment, scriptDefinitions,
                   stageVars, stepVars, unitEv, anyDeclared, absorbed>>

GitHubExecuteJob ==
    /\ vendor = "github" /\ pc = "jobs" /\ ji < nJobs
    /\ \E job \in UnitSet(doc, MaxSteps) :
        LET j == JobIndex(ji + 1, nJobs) IN
        /\ ji' = ji + 1
        /\ curJob' = job
        /\ jobEnv' = GitHubJobEnv(globalEnv, job)
        /\ last' = NoLast
        /\ ti' = 0
        /\ IF ~job.list.present
           THEN /\ Fail("throw")
                /\ unitEv' = UnitEv("jobFail", 0, j)
                /\ UNCHANGED <<nSteps, anyDeclared>>
           ELSE /\ nSteps' = job.list.len
                /\ anyDeclared' = (anyDeclared \/ job.list.len > 0)
                /\ unitEv' = UnitEv("jobStart", 0, j)
                /\ pc' = "steps"
                /\ UNCHANGED <<result, cause>>
    /\ UNCHANGED <<docVars, optionVars, detectVars, rerunVars, cliVars, runs, globalEnv, variables, environment, scriptDefinitions,
                   stageVars, nJobs, absorbed>>

GitHubExecuteStep ==
    /\ vendor = "github" /\ pc = "steps" /\ ti < nSteps
    /\ \E step \in GitHubStepSet(doc), o \in Outcomes \cup {"none"} :
        LET kind == GitHubStepKind(step)
            ok == IF kind = "Script" THEN GitHubScriptResult(step, o) ELSE TRUE
            env == IF kind = "Script" THEN GitHubStepEnv(jobEnv, step) ELSE EmptyMap
            script == IF kind = "Script" THEN doc.text ELSE <<>>
            r == StepRec(StepIndex(ti + 1, nSteps), step, kind, o, ok, env, script)
        IN
        /\ (kind = "Script") <=> (o # "none")
        /\ ti' = ti + 1
        /\ last' = r
        /\ absorbed' = (absorbed \/ Absorbed(r))
        /\ IF ok
           THEN UNCHANGED <<pc, result, cause, unitEv>>
           ELSE /\ Fail("step")
                /\ unitEv' = UnitEv("jobFail", 0, JobIndex(ji, nJobs))
    /\ UNCHANGED <<docVars, optionVars, detectVars, rerunVars, cliVars, runs, envVars, stageVars, jobVars, nSteps, anyDeclared>>

GitHubJobDone ==
    /\ vendor = "github" /\ pc = "steps" /\ ti = nSteps
    /\ pc' = "jobs"
    /\ unitEv' = UnitEv("jobOk", 0, JobIndex(ji, nJobs))
    /\ curJob' = NoUnit
    /\ nSteps' = 0 /\ ti' = 0 /\ last' = NoLast
    /\ UNCHANGED <<docVars, optionVars, detectVars, rerunVars, cliVars, runs, result, cause, envVars, stageVars, nJobs, ji,
                   anyDeclared, absorbed>>

GitHubWorkflowDone ==
    /\ vendor = "github" /\ pc = "jobs" /\ ji = nJobs
    /\ Succeed
    /\ UNCHANGED <<docVars, optionVars, detectVars, rerunVars, cliVars, runs, envVars, stageVars, jobVars, stepVars, unitEv,
                   anyDeclared, absorbed>>

\* ------------------------------------------------- AzurePipelineRunner
\* AzurePipelineRunner.executePipeline: the branch taken on the root shape
AzureRoot(d) ==
    IF d.stages THEN "stages"
    ELSE IF d.jobs THEN "jobs"
    ELSE IF d.steps THEN "steps"
    ELSE "none"

AzureExecutePipeline ==
    /\ vendor = "azure" /\ pc = "start"
    /\ variables' = InitializeVariables(variables, doc.variables)
    /\ CASE AzureRoot(doc) = "stages" ->
              /\ \E n \in 0..MaxStages : nStages' = n
              /\ pc' = "stages"
              /\ UNCHANGED <<nJobs, nSteps, anyDeclared, result, cause>>
         [] AzureRoot(doc) = "jobs" ->
              /\ \E n \in 0..MaxJobs : nJobs' = n
              /\ pc' = "jobs"
              /\ UNCHANGED <<nStages, nSteps, anyDeclared, result, cause>>
         [] AzureRoot(doc) = "steps" ->
              /\ \E n \in 0..MaxSteps :
                    /\ nSteps' = n
                    /\ anyDeclared' = (n > 0)
              /\ pc' = "steps"
              /\ UNCHANGED <<nStages, nJobs, result, cause>>
         [] AzureRoot(doc) = "none" ->
              /\ Succeed
              /\ UNCHANGED <<nStages, nJobs, nSteps, anyDeclared>>
    /\ UNCHANGED <<docVars, optionVars, detectVars, rerunVars, cliVars, runs, globalEnv, jobEnv, environment, scriptDefinitions,
                   si, curStage, ji, curJob, ti, last, unitEv, absorbed>>

AzureExecuteStage ==
    /\ vendor = "azure" /\ pc = "stages" /\ si < nStages
    /\ \E stage \in UnitSet(doc, MaxJobs) :
        LET s == StageIndex(si + 1, nStages) IN
        /\ si' = si + 1
        /\ curStage' = stage
        /\ ji' = 0
        /\ unitEv' = UnitEv("stageStart", s, 0)
        /\ IF ~stage.list.present
           THEN /\ Fail("throw")
                /\ UNCHANGED nJobs
           ELSE /\ nJobs' = stage.list.len
                /\ pc' = "jobs"
                /\ UNCHANGED <<result, cause>>
    /\ UNCHANGED <<docVars, optionVars, detectVars, rerunVars, cliVars, runs, envVars, nStages, curJob, stepVars, anyDeclared, absorbed>>

AzureExecuteJob ==
    /\ vendor = "azure" /\ pc = "jobs" /\ ji < nJobs
    /\ \E job \in UnitSet(doc, MaxSteps) :
        LET j == JobIndex(ji + 1, nJobs) IN
        /\ ji' = ji + 1
        /\ curJob' = job
        /\ last' = NoLast
        /\ ti' = 0
        /\ unitEv' = UnitEv("jobStart", StageIndex(si, nStages), j)
        /\ IF ~job.list.present
           THEN /\ Fail("throw")
                /\ UNCHANGED <<nSteps, anyDeclared>>
           ELSE /\ nSteps' = job.list.len
                /\ anyDeclared' = (anyDeclared \/ job.list.len > 0)
                /\ pc' = "steps"
                /\ UNCHANGED <<result, cause>>
    /\ UNCHANGED <<docVars, optionVars, detectVars, rerunVars, cliVars, runs, envVars, stageVars, nJobs, absorbed>>

\* the unit reported as failed while false is returned up to executePipeline
AzureFailEvent ==
    CASE AzureRoot(doc) = "stages" ->
            UnitEv("stageFail", StageIndex(si, nStages), JobIndex(ji, nJobs))
      [] AzureRoot(doc) = "jobs" ->
            UnitEv("jobFail", StageIndex(si, nStages), JobIndex(ji, nJobs))
      [] OTHER -> unitEv

AzureExecuteStep ==
    /\ vendor = "azure" /\ pc = "steps" /\ ti < nSteps
    /\ \E step \in AzureStepSet(doc), o \in Outcomes \cup {"none"} :
        LET kind == AzureStepKind(step)
            ok == IF kind = "Script" THEN AzureScriptResult(step, o) ELSE TRUE
            env == IF kind = "Script" THEN AzureScriptEnv(step, variables) ELSE EmptyMap
            script == IF kind = "Script"
                      THEN ReplaceVariables(doc.text, variables)
                      ELSE <<>>
            r == StepRec(StepIndex(ti + 1, nSteps), step, kind, o, ok, env, script)
        IN
        /\ (kind = "Script") <=> (o # "none")
        /\ ti' = ti + 1
        /\ last' = r
        /\ absorbed' = (absorbed \/ Absorbed(r))
        /\ IF ok
           THEN UNCHANGED <<pc, result, cause, unitEv>>
           ELSE /\ Fail("step")
                /\ unitEv' = AzureFailEvent
    /\ UNCHANGED <<docVars, optionVars, detectVars, rerunVars, cliVars, runs, envVars, stageVars, jobVars, nSteps, anyDeclared>>

AzureStepsDone ==
    /\ vendor = "azure" /\ pc = "steps" /\ ti = nSteps
    /\ IF AzureRoot(doc) = "steps"
       THEN /\ Succeed
            /\ UNCHANGED unitEv
       ELSE /\ pc' = "jobs"
            /\ unitEv' = UnitEv("jobOk", StageIndex(si, nStages), JobIndex(ji, nJobs))
            /\ UNCHANGED <<result, cause>>
    /\ curJob' = NoUnit
    /\ nSteps' = 0 /\ ti' = 0 /\ last' = NoLast
    /\ UNCHANGED <<docVars, optionVars, detectVars, rerunVars, cliVars, runs, envVars, stageVars, nJobs, ji,
                   anyDeclared, absorbed>>

AzureJobsDone ==
    /\ vendor = "azure" /\ pc = "jobs" /\ ji = nJobs
    /\ IF AzureRoot(doc) = "jobs"
       THEN /\ Succeed
            /\ UNCHANGED unitEv
       ELSE /\ pc' = "stages"
            /\ unitEv' = UnitEv("stageOk", StageIndex(si, nStages), 0)
            /\ UNCHANGED <<result, cause>>
    /\ curStage' = NoUnit
    /\ nJobs' = 0 /\ ji' = 0
    /\ UNCHANGED <<docVars, optionVars, detectVars, rerunVars, cliVars, runs, envVars, nStages, si, curJob, stepVars,
                   anyDeclared, absorbed>>

AzureStagesDone ==
    /\ vendor = "azure" /\ pc = "stages" /\ si = nStages
    /\ Succeed
    /\ UNCHANGED <<docVars, optionVars, detectVars, rerunVars, cliVars, runs, envVars, stageVars, jobVars, stepVars, unitEv,
                   anyDeclared, absorbed>>

\* ----------------------------------------------------- CodeMagicRunner
CodeMagicExecuteWorkflow ==
    /\ vendor = "codemagic" /\ pc = "start"
    /\ scriptDefinitions' = ParseScriptDefinitions(scriptDefinitions, doc)
    /\ IF ~doc.workflows
       THEN /\ Fail("throw")
            /\ UNCHANGED <<environment, nSteps, anyDeclared>>
       ELSE /\ environment' =
                  SetupMobileEnvironment(SetupEnvironment(environment, doc), doc)
            /\ IF ~doc.scripts
               THEN /\ Fail("throw")
                    /\ UNCHANGED <<nSteps, anyDeclared>>
               ELSE /\ \E n \in 0..MaxSteps :
                          /\ nSteps' = n
                          /\ anyDeclared' = (n > 0)
                    /\ pc' = "steps"
                    /\ UNCHANGED <<result, cause>>
    /\ UNCHANGED <<docVars, optionVars, detectVars, rerunVars, cliVars, runs, globalEnv, jobEnv, variables, stageVars, jobVars,
                   ti, last, unitEv, absorbed>>

CodeMagicExecuteScript ==
    /\ vendor = "codemagic" /\ pc = "steps" /\ ti < nSteps
    /\ \E step \in CodeMagicStepSet(doc), o \in Outcomes \cup {"invalid", "none"} :
        LET kind == CodeMagicStepKind(step, scriptDefinitions)
            ok == IF kind = "Script" THEN CodeMagicScriptResult(step, o) ELSE TRUE
            env == IF kind = "Script" THEN CodeMagicScriptEnv(environment) ELSE EmptyMap
            script == IF kind = "Script" THEN doc.text ELSE <<>>
            r == StepRec(StepIndex(ti + 1, nSteps), step, kind, o, ok, env, script)
        IN
        /\ (kind = "Script") <=> (o \in CodeMagicOutcomes(step, scriptDefinitions))
        /\ (kind # "Script") <=> (o = "none")
        /\ ti' = ti + 1
        /\ last' = r
        /\ absorbed' = (absorbed \/ Absorbed(r))
        /\ IF ok
           THEN UNCHANGED <<pc, result, cause>>
           ELSE Fail("step")
    /\ UNCHANGED <<docVars, optionVars, detectVars, rerunVars, cliVars, runs, envVars, stageVars, jobVars, nSteps, unitEv, anyDeclared>>

CodeMagicWorkflowDone ==
    /\ vendor = "codemagic" /\ pc = "steps" /\ ti = nSteps
    /\ Succeed
    /\ nSteps' = 0 /\ ti' = 0 /\ last' = NoLast
    /\ UNCHANGED <<docVars, optionVars, detectVars, rerunVars, cliVars, runs, envVars, stageVars, jobVars, unitEv,
                   anyDeclared, absorbed>>

\* ---------------------------------------------------------------- system
Next ==
    \/ GitHubExecuteWorkflow
    \/ GitHubExecuteJob
    \/ GitHubExecuteStep
    \/ GitHubJobDone
    \/ GitHubWorkflowDone
    \/ AzureExecutePipeline
    \/ AzureExecuteStage
    \/ AzureExecuteJob
    \/ AzureExecuteStep
    \/ AzureStepsDone
    \/ AzureJobsDone
    \/ AzureStagesDone
    \/ CodeMagicExecuteWorkflow
    \/ CodeMagicExecuteScript
    \/ CodeMagicWorkflowDone

Spec == Init /\ [][Next]_vars

\* The runs whose end is checked: documents whose units name other units
\* (needs / dependsOn), the only fields that could send a traversal back,
\* and CodeMagic workflows.
TermInit ==
    /\ Init
    /\ vendor # "codemagic" => doc.feature = "needs"

\* every script that is spawned ends and execSync returns, so a runner that
\* can take a step takes it
TermSpec == TermInit /\ [][Next]_vars /\ WF_vars(Next)

\* ------------------------------------- Azure pipelines of bare steps
\* The Azure runner on documents of StepFeatures: the script text and the
\* task / script / bash / powershell fields of the steps vary.
StepInit ==
    /\ vendor = "azure"
    /\ doc \in AzureStepDocSet
    /\ InitRunner
    /\ NoDetection
    /\ NoRerun
    /\ NoCommandLine
    /\ NoOptions

StepNext ==
    \/ AzureExecutePipeline
    \/ AzureExecuteStep
    \/ AzureStepsDone

StepSpec == StepInit /\ [][StepNext]_vars

\* --------------------------------------- Azure root shapes, side by side
\* executePipeline as a function of an explicit document: doc.list holds the
\* steps with the outcome execSync has for each, and a pipeline is that
\* document with its root lists written out.
ShapeStepSet ==
    {[NoStep EXCEPT !.task = t, !.script = s, !.continueOnError = x] :
        t \in BOOLEAN, s \in BOOLEAN, x \in BOOLEAN}

ShapeItemSet ==
    {it \in [step : ShapeStepSet, outcome : Outcomes \cup {"none"}] :
        (it.step.script /\ ~it.step.task) <=> (it.outcome # "none")}

ShapeDocSet ==
    {[NoDoc EXCEPT !.text = <<"$(", "FOO", ")">>, !.variables = v, !.list = l] :
        v \in OptBlockSet("env", "workflow"),
        l \in UNION {[1..n -> ShapeItemSet] : n \in 0..MaxSteps}}

\* AzurePipelineRunner.executeSteps from the k-th iteration on
RECURSIVE ExecuteStepsFrom(_, _, _, _)
ExecuteStepsFrom(d, items, k, vs) ==
    IF k > Len(items) THEN [trace |-> <<>>, result |-> "true"]
    ELSE LET it == items[StepIndex(k, Len(items))]
             kind == AzureStepKind(it.step)
             o == IF kind = "Script" THEN it.outcome ELSE "none"
             ok == IF kind = "Script" THEN AzureScriptResult(it.step, o) ELSE TRUE
             env == IF kind = "Script" THEN AzureScriptEnv(it.step, vs) ELSE EmptyMap
             script == IF kind = "Script" THEN ReplaceVariables(d.text, vs) ELSE <<>>
             r == StepRec(StepIndex(k, Len(items)), it.step, kind, o, ok, env, script)
         IN IF ~ok THEN [trace |-> <<r>>, result |-> "false"]
            ELSE LET rest == ExecuteStepsFrom(d, items, k + 1, vs)
                 IN [trace |-> <<r>> \o rest.trace, result |-> rest.result]

\* AzurePipelineRunner.executeSteps; an absent list throws at steps.length
ExecuteSteps(d, list, vs) ==
    IF ~list.present THEN [trace |-> <<>>, result |-> "throw"]
    ELSE ExecuteStepsFrom(d, list.items, 1, vs)

\* variant: a failed job is logged and the loop goes on with the next job
RECURSIVE ExecuteJobsFromGoesOn(_, _, _, _)
ExecuteJobsFromGoesOn(d, jobs, k, vs) ==
    IF k > Len(jobs) THEN [trace |-> <<>>, result |-> "true"]
    ELSE LET r == ExecuteSteps(d, jobs[JobIndex(k, Len(jobs))], vs)
             rest == ExecuteJobsFromGoesOn(d, jobs, k + 1, vs)
         IN IF r.result = "throw" THEN r
            ELSE [trace |-> r.trace \o rest.trace, result |-> rest.result]

\* AzurePipelineRunner.executeJobs from the k-th iteration on
RECURSIVE ExecuteJobsFrom(_, _, _, _)
ExecuteJobsFrom(d, jobs, k, vs) ==
    IF k > Len(jobs) THEN [trace |-> <<>>, result |-> "true"]
    ELSE LET r == ExecuteSteps(d, jobs[JobIndex(k, Len(jobs))], vs)
         IN IF r.result # "true" THEN r
            ELSE LET rest == ExecuteJobsFrom(d, jobs, k + 1, vs)
                 IN [trace |-> r.trace \o rest.trace, result |-> rest.result]

\* AzurePipelineRunner.executeJobs; an absent list throws at jobs.length
ExecuteJobs(d, list, vs) ==
    IF ~list.present THEN [trace |-> <<>>, result |-> "throw"]
    ELSE ExecuteJobsFrom(d, list.items, 1, vs)

\* AzurePipelineRunner.executeStages from the k-th iteration on
RECURSIVE ExecuteStagesFrom(_, _, _, _)
ExecuteStagesFrom(d, stages, k, vs) ==
    IF k > Len(stages) THEN [trace |-> <<>>, result |-> "true"]
    ELSE LET r == ExecuteJobs(d, stages[StageIndex(k, Len(stages))], vs)
         IN IF r.result # "true" THEN r
            ELSE LET rest == ExecuteStagesFrom(d, stages, k + 1, vs)
                 IN [trace |-> r.trace \o rest.trace, result |-> rest.result]

\* AzurePipelineRunner.executePipeline on the pipeline p: the document p.doc
\* with the root lists p.stages, p.jobs and p.steps
ExecutePipeline(p) ==
    LET vs == InitializeVariables(EmptyMap, p.doc.variables)
        root == AzureRoot(p.doc)
        r == CASE root = "stages" -> ExecuteStagesFrom(p.doc, p.stages, 1, vs)
               [] root = "jobs" -> ExecuteJobsFrom(p.doc, p.jobs, 1, vs)
               [] root = "steps" -> ExecuteStepsFrom(p.doc, p.steps, 1, vs)
               [] OTHER -> [trace |-> <<>>, result |-> "true"]
    IN [trace |-> r.trace,
        result |-> IF r.result = "true" THEN "true" ELSE "false",
        root |-> root]

\* a list that is present
Listed(items) == [present |-> TRUE, items |-> items]

\* the document d with its step list written under each root it declares:
\* steps: S, jobs: [{steps: S}], stages: [{jobs: [{steps: S}]}]
Pipeline(d, stages, jobs, steps) ==
    [doc |-> [d EXCEPT !.stages = stages, !.jobs = jobs, !.steps = steps],
     stages |-> IF stages THEN <<Listed(<<Listed(d.list)>>)>> ELSE <<>>,
     jobs |-> IF jobs THEN <<Listed(d.list)>> ELSE <<>>,
     steps |-> IF steps THEN d.list ELSE <<>>]

ShapeInit ==
    /\ vendor = "azure"
    /\ doc \in ShapeDocSet
    /\ InitRunner
    /\ NoDetection
    /\ NoRerun
    /\ NoCommandLine
    /\ NoOptions

\* a fresh runner executes each shape of the document
ExecuteShapes ==
    /\ pc = "start"
    /\ pc' = "done"
    /\ runs' = [steps |-> ExecutePipeline(Pipeline(doc, FALSE, FALSE, TRUE)),
                jobs |-> ExecutePipeline(Pipeline(doc, FALSE, TRUE, FALSE)),
                stages |-> ExecutePipeline(Pipeline(doc, TRUE, FALSE, FALSE)),
                all |-> ExecutePipeline(Pipeline(doc, TRUE, TRUE, TRUE))]
    /\ UNCHANGED <<docVars, optionVars, detectVars, rerunVars, cliVars, result, cause, envVars, stageVars, jobVars, stepVars,
                   unitEv, anyDeclared, absorbed>>

ShapeNext == ExecuteShapes

ShapeSpec == ShapeInit /\ [][ShapeNext]_vars

\* --------------------------------------------- replaceVariables alone
\* the values a pipeline may give the variable FOO: a plain word, a lone
\* "$(" or ")", the name of a variable, a token without its ")", and whole
\* tokens
SubstValues ==
    {"workflow", "$(", ")", "FOO", "$(FOO", "$(FOO)", "$(Build.SourcesDirectory)"}

\* variant: the text is passed through the replacement twice
ReplaceVariablesTwice(text, vs) == ReplaceFrom(ReplaceFrom(text, 1, vs), 1, vs)

\* this.replaceVariables(script)
ReplaceScript(text, vs) == ReplaceVariables(text, vs)

SubstInit ==
    /\ vendor = "azure"
    /\ doc \in {[NoDoc EXCEPT !.feature = "subst", !.steps = TRUE, !.text = t,
                              !.variables = [present |-> TRUE,
                                             vars |-> [EmptyMap EXCEPT !["FOO"] = v]]] :
                   t \in Texts, v \in SubstValues}
    /\ InitRunner
    /\ NoDetection
    /\ NoRerun
    /\ NoCommandLine
    /\ NoOptions

\* initializeVariables, then replaceVariables on the script text and once
\* more on what it returned
Substitute ==
    /\ pc = "start"
    /\ pc' = "done"
    /\ variables' = InitializeVariables(variables, doc.variables)
    /\ calls' = [once |-> ReplaceScript(doc.text, variables'),
                 twice |-> ReplaceScript(ReplaceScript(doc.text, variables'), variables')]
    /\ UNCHANGED <<docVars, detectVars, rerunVars, cliVars, result, cause, globalEnv,
                   jobEnv, environment, scriptDefinitions, stageVars, jobVars,
                   stepVars, unitEv, anyDeclared, absorbed, runs>>

SubstNext == Substitute

SubstSpec == SubstInit /\ [][SubstNext]_vars

\* ------------------------------------- one runner, several documents
\* execute as a function of the runner's fields and an explicit document:
\* doc.list holds the steps with the outcome execSync has for each.

\* the steps of a document: a script that succeeds, a script that fails, and
\* a step that is simulated or empty (Azure, GitHub) or names a definition
\* (CodeMagic)
RerunItemSet(v) ==
    CASE v = "azure" ->
            {[step |-> [NoStep EXCEPT !.script = TRUE], outcome |-> o] :
                o \in {"ok", "nonzero"}}
            \cup {[step |-> [NoStep EXCEPT !.task = TRUE], outcome |-> "none"],
                  [step |-> NoStep, outcome |-> "none"]}
      [] v = "github" ->
            {[step |-> [NoStep EXCEPT !.run = TRUE], outcome |-> o] :
                o \in {"ok", "nonzero"}}
            \cup {[step |-> [NoStep EXCEPT !.uses = TRUE], outcome |-> "none"],
                  [step |-> NoStep, outcome |-> "none"]}
      [] v = "codemagic" ->
            {[step |-> [NoStep EXCEPT !.form = "inline"], outcome |-> o] :
                o \in {"ok", "nonzero"}}
            \cup {[step |-> [NoStep EXCEPT !.form = "ref", !.ref = "build"],
                   outcome |-> "ok"]}

\* the well-formed documents of vendor v with step lists of at most n steps
RerunDocSet(v, n) ==
    LET lists == UNION {[1..m -> RerunItemSet(v)] : m \in 0..n}
    IN CASE v = "azure" ->
              {[NoDoc EXCEPT !.steps = TRUE, !.text = <<"$(", "FOO", ")">>,
                             !.variables = b, !.list = l] :
                  b \in OptBlockSet("env", "workflow"), l \in lists}
         [] v = "github" ->
              {[NoDoc EXCEPT !.jobs = TRUE, !.env = e, !.list = l] :
                  e \in LayerSet("workflow"), l \in lists}
         [] v = "codemagic" ->
              {[NoDoc EXCEPT !.workflows = TRUE, !.scripts = TRUE,
                             !.environment = b, !.definitions = ds, !.list = l] :
                  b \in OptBlockSet("env", "workflow"),
                  ds \in {{}, {"build"}}, l \in lists}

\* GitHubActionsRunner.executeJob: the loop over job.steps from the k-th
\* iteration on
RECURSIVE GitHubExecuteStepsFrom(_, _, _, _)
GitHubExecuteStepsFrom(d, items, k, env) ==
    IF k > Len(items) THEN [trace |-> <<>>, result |-> "true"]
    ELSE LET it == items[StepIndex(k, Len(items))]
             kind == GitHubStepKind(it.step)
             o == IF kind = "Script" THEN it.outcome ELSE "none"
             ok == IF kind = "Script" THEN GitHubScriptResult(it.step, o) ELSE TRUE
             senv == IF kind = "Script" THEN GitHubStepEnv(env, it.step) ELSE EmptyMap
             script == IF kind = "Script" THEN d.text ELSE <<>>
             r == StepRec(StepIndex(k, Len(items)), it.step, kind, o, ok, senv, script)
         IN IF ~ok THEN [trace |-> <<r>>, result |-> "false"]
            ELSE LET rest == GitHubExecuteStepsFrom(d, items, k + 1, env)
                 IN [trace |-> <<r>> \o rest.trace, result |-> rest.result]

\* GitHubActionsRunner.executeWorkflow: the loop over workflow.jobs from the
\* k-th iteration on; an absent step list throws at job.steps.length
RECURSIVE GitHubExecuteJobsFrom(_, _, _, _)
GitHubExecuteJobsFrom(d, jobs, k, genv) ==
    IF k > Len(jobs) THEN [trace |-> <<>>, result |-> "true"]
    ELSE LET job == jobs[JobIndex(k, Len(jobs))]
             r == IF ~job.present THEN [trace |-> <<>>, result |-> "throw"]
                  ELSE GitHubExecuteStepsFrom(d, job.items, 1,
                                              GitHubJobEnv(genv, NoUnit))
         IN IF r.result # "true" THEN r
            ELSE LET rest == GitHubExecuteJobsFrom(d, jobs, k + 1, genv)
                 IN [trace |-> r.trace \o rest.trace, result |-> rest.result]

\* GitHubActionsRunner.execute on the decoded workflow d, whose jobs are
\* `jobs`: executeWorkflow; the runner keeps nothing of the run
GitHubExecute(rs, d, jobs) ==
    LET r == IF ~d.jobs THEN [trace |-> <<>>, result |-> "throw"]
             ELSE GitHubExecuteJobsFrom(d, jobs, 1, GitHubGlobalEnv(d))
    IN [trace |-> r.trace,
        result |-> IF r.result = "true" THEN "true" ELSE "false",
        runner |-> rs]

\* variant: a workflow name that is given must name a stage of the pipeline
AzureExecuteTargetsStage(rs, p, workflow) ==
    LET vs == InitializeVariables(rs.variables, p.doc.variables)
        r == ExecuteStepsFrom(p.doc, p.steps, 1, vs)
    IN [trace |-> IF workflow # "none" THEN <<>> ELSE r.trace,
        result |-> IF workflow = "none" /\ r.result = "true" THEN "true" ELSE "false",
        runner |-> [rs EXCEPT !.variables = vs]]

\* AzurePipelineRunner.execute on the decoded pipeline p with the workflow
\* name `workflow` ("none" when not given): the name is logged and
\* executePipeline runs; this.variables is what initializeVariables leaves
AzureExecute(rs, p, workflow) ==
    LET vs == InitializeVariables(rs.variables, p.doc.variables)
        root == AzureRoot(p.doc)
        r == CASE root = "stages" -> ExecuteStagesFrom(p.doc, p.stages, 1, vs)
               [] root = "jobs" -> ExecuteJobsFrom(p.doc, p.jobs, 1, vs)
               [] root = "steps" -> ExecuteStepsFrom(p.doc, p.steps, 1, vs)
               [] OTHER -> [trace |-> <<>>, result |-> "true"]
    IN [trace |-> r.trace,
        result |-> IF r.result = "true" THEN "true" ELSE "false",
        runner |-> [rs EXCEPT !.variables = vs]]

\* variant: an unknown script reference ends the loop
RECURSIVE CodeMagicExecuteScriptsFromBreaks(_, _, _, _, _)
CodeMagicExecuteScriptsFromBreaks(d, items, k, env, defs) ==
    IF k > Len(items) THEN [trace |-> <<>>, result |-> "true"]
    ELSE LET it == items[StepIndex(k, Len(items))]
             kind == CodeMagicStepKind(it.step, defs)
             o == IF kind # "Script" THEN "none"
                  ELSE IF it.outcome \in CodeMagicOutcomes(it.step, defs) THEN it.outcome
                  ELSE "invalid"
             ok == IF kind = "Script" THEN CodeMagicScriptResult(it.step, o) ELSE TRUE
             senv == IF kind = "Script" THEN CodeMagicScriptEnv(env) ELSE EmptyMap
             script == IF kind = "Script" THEN d.text ELSE <<>>
             r == StepRec(StepIndex(k, Len(items)), it.step, kind, o, ok, senv, script)
         IN IF ~ok THEN [trace |-> <<r>>, result |-> "false"]
            ELSE IF kind # "Script" THEN [trace |-> <<r>>, result |-> "true"]
            ELSE LET rest == CodeMagicExecuteScriptsFromBreaks(d, items, k + 1, env, defs)
                 IN [trace |-> <<r>> \o rest.trace, result |-> rest.result]

\* CodeMagicRunner.executeScripts from the k-th iteration on
RECURSIVE CodeMagicExecuteScriptsFrom(_, _, _, _, _)
CodeMagicExecuteScriptsFrom(d, items, k, env, defs) ==
    IF k > Len(items) THEN [trace |-> <<>>, result |-> "true"]
    ELSE LET it == items[StepIndex(k, Len(items))]
             kind == CodeMagicStepKind(it.step, defs)
             o == IF kind # "Script" THEN "none"
                  ELSE IF it.outcome \in CodeMagicOutcomes(it.step, defs) THEN it.outcome
                  ELSE "invalid"
             ok == IF kind = "Script" THEN CodeMagicScriptResult(it.step, o) ELSE TRUE
             senv == IF kind = "Script" THEN CodeMagicScriptEnv(env) ELSE EmptyMap
             script == IF kind = "Script" THEN d.text ELSE <<>>
             r == StepRec(StepIndex(k, Len(items)), it.step, kind, o, ok, senv, script)
         IN IF ~ok THEN [trace |-> <<r>>, result |-> "false"]
            ELSE LET rest == CodeMagicExecuteScriptsFrom(d, items, k + 1, env, defs)
                 IN [trace |-> <<r>> \o rest.trace, result |-> rest.result]

\* CodeMagicRunner.executeWorkflow on the workflow w of a runner whose
\* fields are rs; an absent `scripts` throws at scripts.length
CodeMagicExecuteWorkflowOn(rs, w) ==
    LET env == SetupMobileEnvironment(SetupEnvironment(rs.environment, w), w)
        r == IF ~w.scripts THEN [trace |-> <<>>, result |-> "throw"]
             ELSE CodeMagicExecuteScriptsFrom(w, w.list, 1, env, rs.scriptDefinitions)
    IN [trace |-> r.trace,
        result |-> IF r.result = "true" THEN "true" ELSE "false",
        runner |-> [rs EXCEPT !.environment = env]]

\* variant: the definitions are read after the workflow has run
CodeMagicExecuteParsesLate(rs, d) ==
    LET r == CodeMagicExecuteWorkflowOn(rs, d)
    IN [r EXCEPT !.runner.scriptDefinitions =
                     ParseScriptDefinitions(rs.scriptDefinitions, d)]

\* CodeMagicRunner.execute on the decoded file d with one workflow:
\* parseScriptDefinitions, then executeConfig runs the workflow
CodeMagicExecute(rs, d) ==
    LET defs == ParseScriptDefinitions(rs.scriptDefinitions, d)
        rs1 == [rs EXCEPT !.scriptDefinitions = defs]
    IN IF ~d.workflows
       THEN [trace |-> <<>>, result |-> "false", runner |-> rs1]
       ELSE CodeMagicExecuteWorkflowOn(rs1, d)

\* execute of the runner of vendor v
Execute(v, rs, d, workflow) ==
    CASE v = "github" -> GitHubExecute(rs, d, <<Listed(d.list), Listed(d.list)>>)
      [] v = "azure" -> AzureExecute(rs, Pipeline(d, FALSE, FALSE, TRUE), workflow)
      [] v = "codemagic" -> CodeMagicExecute(rs, d)

\* the workflow names a command line may give
WorkflowNames == {"build", "deploy"}

RerunInit ==
    /\ vendor \in Vendors
    /\ doc \in RerunDocSet(vendor, MaxSteps)
    /\ docB \in RerunDocSet(vendor, 1)
    /\ reruns = NoReruns
    /\ InitRunner
    /\ NoDetection
    /\ NoCommandLine
    /\ NoOptions

\* one runner executes doc, doc again and docB; fresh runners execute docB,
\* and doc with a workflow name
ExecuteRuns ==
    /\ pc = "start"
    /\ pc' = "done"
    /\ \E w \in WorkflowNames :
         LET first == Execute(vendor, FreshRunner, doc, "none")
         IN reruns' = [first |-> first,
                       again |-> Execute(vendor, first.runner, doc, "none"),
                       second |-> Execute(vendor, first.runner, docB, "none"),
                       fresh |-> Execute(vendor, FreshRunner, docB, "none"),
                       targeted |-> Execute(vendor, FreshRunner, doc, w),
                       target |-> w]
    /\ UNCHANGED <<docVars, optionVars, detectVars, cliVars, docB, result, cause, envVars,
                   stageVars, jobVars, stepVars, unitEv, anyDeclared, absorbed, runs>>

RerunNext == ExecuteRuns

RerunSpec == RerunInit /\ [][RerunNext]_vars

\* --------------------------------------------- detection of one file
DetectInit ==
    /\ vendor = "github"
    /\ doc = NoDoc
    /\ InitRunner
    /\ file \in FileSet
    /\ detected = "none"
    /\ NoRerun
    /\ NoCommandLine
    /\ NoOptions

\* detectFromFile(filePath)
Detect ==
    /\ detected = "none"
    /\ detected' = DetectFromFile(file)
    /\ UNCHANGED <<docVars, optionVars, rerunVars, cliVars, file, pc, result, cause, envVars, stageVars, jobVars,
                   stepVars, unitEv, anyDeclared, absorbed, runs>>

DetectNext == Detect

DetectSpec == DetectInit /\ [][DetectNext]_vars

\* ------------------------------------------------ the command line
\* main of index.ts with the detector and the execute method of each runner.
\* What a runner finds on disk is read when its code reads it.

\* the values --type may carry
TypeArgs == {"none", "jenkins"} \cup {PipelineType[k] : k \in DOMAIN PipelineType}

\* the values --workflow may carry
WorkflowArgs == {"none", "constructor"} \cup WorkflowNames

\* the files --input may name
CliFileSet ==
    {f \in FileSet :
        f.keys \in {{}, {"on", "jobs"}, {"trigger", "jobs"}, {"workflows"}}}

\* findAllPipelineFiles pushes GitHub files, then Azure files, then CodeMagic files
TypeRank(t) == CASE t = PipelineType.GITHUB_ACTIONS -> 1
                 [] t = PipelineType.AZURE_DEVOPS -> 2
                 [] t = PipelineType.CODEMAGIC -> 3

\* PipelineDetector.findAllPipelineFiles: the types of the files found
FoundSet ==
    LET types == {PipelineType.GITHUB_ACTIONS, PipelineType.AZURE_DEVOPS,
                  PipelineType.CODEMAGIC}
    IN {s \in UNION {[1..n -> types] : n \in 0..2} :
           \A i \in 1..Len(s) - 1 : TypeRank(s[i]) <= TypeRank(s[i + 1])}

\* the command line: --type, --workflow, and --list / --list-workflows
ArgSet == [type : TypeArgs, workflow : WorkflowArgs,
           mode : {"run", "list", "list-workflows"}]

\* what --input names (a .yml file, a directory, or a path whose parent is
\* missing) and the types of the pipeline files findAllPipelineFiles finds
\* below a directory
TreeSet ==
    {t \in [input : {"file", "dir", "nowhere"}, found : FoundSet] :
        (t.input # "dir") => (t.found = <<>>)}

\* execute returns false before any workflow is run
NotRun(rs, asked) ==
    [ran |-> "none", asked |-> asked,
     run |-> [trace |-> <<>>, result |-> "false", runner |-> rs]]

\* GitHubActionsRunner.findWorkflowFile: the input path when it is an existing
\* .yml file, else the file named like the target, else the first file of
\* .github/workflows, else null
FindWorkflowFile(isFile, all, target, named) ==
    IF isFile THEN "input"
    ELSE IF all > 0 THEN (IF target # "none" /\ named THEN target ELSE "first")
    ELSE "none"

\* GitHubActionsRunner.execute: isFile, all (the length findAllWorkflowFiles
\* returns), named and parses are what the disk holds; answer is the
\* selector's ("none": the prompt threw and promptForWorkflowSelection
\* returned null)
GitHubExecuteCall(rs, d, isFile, all, named, parses, target, answer) ==
    LET asked == target = "none" /\ all > 1
        wf == IF asked THEN answer
              ELSE FindWorkflowFile(isFile, all, target, named)
    IN IF wf = "none" THEN NotRun(rs, asked)
       ELSE IF ~parses THEN NotRun(rs, asked)
       ELSE [ran |-> wf, asked |-> asked,
             run |-> GitHubExecute(rs, d, <<Listed(d.list)>>)]

\* AzurePipelineRunner.execute: findPipelineFile, parsePipeline, executePipeline
AzureExecuteCall(rs, d, present, parses, workflow) ==
    IF ~present \/ ~parses THEN NotRun(rs, FALSE)
    ELSE [ran |-> "pipeline", asked |-> FALSE,
          run |-> AzureExecute(rs, Pipeline(d, FALSE, FALSE, TRUE), workflow)]

\* variant: a target that is not found falls back to the first workflow
CodeMagicExecuteConfigFallsBack(rs, d, names, target, answer) ==
    LET ranAs(n) == [ran |-> n, asked |-> FALSE,
                    run |-> CodeMagicExecuteWorkflowOn(rs, d)]
    IN IF ~d.workflows \/ names = {} THEN NotRun(rs, FALSE)
       ELSE IF target \in names THEN ranAs(target)
       ELSE ranAs(CHOOSE n \in names : TRUE)

\* CodeMagicRunner.executeConfig and promptForWorkflowSelection on a file
\* whose workflows are named `names`; every workflow has the content of d.
\* answer is the selector's ("none": the prompt threw)
CodeMagicExecuteConfig(rs, d, names, target, answer) ==
    LET ranAs(n, asked) == [ran |-> n, asked |-> asked,
                           run |-> CodeMagicExecuteWorkflowOn(rs, d)]
    IN IF ~d.workflows THEN NotRun(rs, FALSE)
       ELSE IF target # "none"
       THEN IF target \in names THEN ranAs(target, FALSE)
            ELSE IF target \in ObjectPrototypeNames
            \* executeWorkflow of an inherited property throws at scripts.length
            THEN NotRun(rs, FALSE)
            ELSE NotRun(rs, FALSE)
       ELSE IF Cardinality(names) > 1
       THEN IF answer \in names THEN ranAs(answer, TRUE) ELSE NotRun(rs, TRUE)
       ELSE IF names = {}
       THEN [NotRun(rs, FALSE) EXCEPT !.run.result = "true"]
       ELSE ranAs(CHOOSE n \in names : TRUE, FALSE)

\* CodeMagicRunner.execute: findConfigFile, parseConfig,
\* parseScriptDefinitions, executeConfig
CodeMagicExecuteCall(rs, d, present, parses, names, target, answer) ==
    IF ~present \/ ~parses THEN NotRun(rs, FALSE)
    ELSE CodeMagicExecuteConfig(
             [rs EXCEPT !.scriptDefinitions = ParseScriptDefinitions(rs.scriptDefinitions, d)],
             d, names, target, answer)

CliInit ==
    /\ vendor = "github"
    /\ doc = NoDoc
    /\ InitRunner
    /\ NoRerun
    /\ args \in ArgSet
    /\ tree \in TreeSet
    /\ file \in CliFileSet
    /\ (tree.input # "file") => (file = NoFile)
    /\ detected = "none"
    /\ cli = NoCli
    /\ NoOptions

\* process.exit(code), or main returning
Exit(c, code) == [c EXCEPT !.pc = "exited", !.exitCode = code]

\* the input path is an existing .yml / .yaml file
InputIsFile == tree.input = "file" /\ file.exists

\* main, lines 57-99: the list flags, then --type
MainOptions ==
    /\ cli.pc = "main"
    /\ cli' = IF args.mode # "run" THEN Exit(cli, 0)
              ELSE IF args.type = "none" THEN [cli EXCEPT !.pc = "detect"]
              ELSE IF args.type \notin {PipelineType[k] : k \in DOMAIN PipelineType}
              THEN Exit(cli, 0)
              ELSE [cli EXCEPT !.pc = "typed", !.pipelineType = args.type,
                               !.path = IF InputIsFile THEN "file" ELSE "dir"]
    /\ UNCHANGED <<docVars, optionVars, detectVars, rerunVars, args, tree, pc, result, cause,
                   envVars, stageVars, jobVars, stepVars, unitEv, anyDeclared,
                   absorbed, runs>>

\* detectPipelineTypeInteractive / detectFromDirectoryInteractive, and main's
\* return when the detection is null
DetectPipelineTypeInteractive ==
    /\ cli.pc = "detect"
    /\ \E a \in 0..Len(tree.found) :
        /\ cli' =
             CASE tree.input = "file" ->
                    [cli EXCEPT !.pc = "typed", !.pipelineType = DetectFromFile(file),
                                !.path = "file"]
               [] tree.input = "nowhere" -> Exit(cli, 0)
               [] tree.input = "dir" /\ Len(tree.found) = 0 ->
                    [cli EXCEPT !.pc = "typed", !.pipelineType = PipelineType.UNKNOWN,
                                !.path = "dir"]
               [] tree.input = "dir" /\ Len(tree.found) = 1 ->
                    [cli EXCEPT !.pc = "typed", !.pipelineType = tree.found[1],
                                !.path = "file"]
               [] OTHER ->
                    IF a = 0
                    THEN Exit([cli EXCEPT !.asked = "file", !.answer = "none"], 0)
                    ELSE [cli EXCEPT !.pc = "typed", !.pipelineType = tree.found[a],
                                     !.path = "file", !.asked = "file",
                                     !.answer = "chosen"]
        /\ (Len(tree.found) < 2) => (a = 0)
    /\ UNCHANGED <<docVars, optionVars, detectVars, rerunVars, args, tree, pc, result, cause,
                   envVars, stageVars, jobVars, stepVars, unitEv, anyDeclared,
                   absorbed, runs>>

\* main, lines 101-115: the Unknown type, then createRunner
CreateRunner ==
    /\ cli.pc = "typed"
    /\ cli' = IF cli.pipelineType = PipelineType.UNKNOWN THEN Exit(cli, 0)
              ELSE [cli EXCEPT !.pc = "execute"]
    /\ UNCHANGED <<docVars, optionVars, detectVars, rerunVars, args, tree, pc, result, cause,
                   envVars, stageVars, jobVars, stepVars, unitEv, anyDeclared,
                   absorbed, runs>>

\* what execute did, as main sees it
Executed(c, e, names, answer) ==
    [c EXCEPT !.pc = "executed", !.ran = e.ran, !.run = e.run, !.names = names,
              !.asked = IF e.asked THEN "workflow" ELSE c.asked,
              !.answer = IF e.asked THEN answer ELSE c.answer]

\* runner.execute(actualInputPath, mainOptions.workflow) of a GitHubActionsRunner
GitHubRunnerExecute ==
    /\ cli.pc = "execute" /\ cli.pipelineType = PipelineType.GITHUB_ACTIONS
    /\ \E d \in RerunDocSet("github", 1), all \in 0..2, named \in BOOLEAN,
          parses \in BOOLEAN, answer \in {"none", "first", "second"} :
        /\ named => (all > 0 /\ args.workflow # "none")
        /\ (answer # "none") => (args.workflow = "none" /\ all > 1)
        /\ cli' = Executed(cli,
                     GitHubExecuteCall(FreshRunner, d, cli.path = "file", all, named,
                                       parses, args.workflow, answer),
                     {}, answer)
    /\ UNCHANGED <<docVars, optionVars, detectVars, rerunVars, args, tree, pc, result, cause,
                   envVars, stageVars, jobVars, stepVars, unitEv, anyDeclared,
                   absorbed, runs>>

\* runner.execute(actualInputPath, mainOptions.workflow) of an AzurePipelineRunner
AzureRunnerExecute ==
    /\ cli.pc = "execute" /\ cli.pipelineType = PipelineType.AZURE_DEVOPS
    /\ \E d \in RerunDocSet("azure", 1), present \in BOOLEAN, parses \in BOOLEAN :
        /\ (cli.path = "file") => present
        /\ cli' = Executed(cli,
                     AzureExecuteCall(FreshRunner, d, present, parses, args.workflow),
                     {}, "none")
    /\ UNCHANGED <<docVars, optionVars, detectVars, rerunVars, args, tree, pc, result, cause,
                   envVars, stageVars, jobVars, stepVars, unitEv, anyDeclared,
                   absorbed, runs>>

\* runner.execute(actualInputPath, mainOptions.workflow) of a CodeMagicRunner
CodeMagicRunnerExecute ==
    /\ cli.pc = "execute" /\ cli.pipelineType = PipelineType.CODEMAGIC
    /\ \E d \in RerunDocSet("codemagic", 1), present \in BOOLEAN, parses \in BOOLEAN,
          names \in SUBSET WorkflowNames, answer \in {"none"} \cup WorkflowNames :
        /\ (cli.path = "file") => present
        /\ (answer # "none") =>
               (args.workflow = "none" /\ Cardinality(names) > 1 /\ answer \in names)
        /\ cli' = Executed(cli,
                     CodeMagicExecuteCall(FreshRunner, d, present, parses, names,
                                          args.workflow, answer),
                     IF present /\ parses THEN names ELSE {}, answer)
    /\ UNCHANGED <<docVars, optionVars, detectVars, rerunVars, args, tree, pc, result, cause,
                   envVars, stageVars, jobVars, stepVars, unitEv, anyDeclared,
                   absorbed, runs>>

\* main, lines 134-139: `if (result)`, else process.exit(1)
MainExit ==
    /\ cli.pc = "executed"
    /\ cli' = Exit(cli, IF cli.run.result = "true" THEN 0 ELSE 1)
    /\ UNCHANGED <<docVars, optionVars, detectVars, rerunVars, args, tree, pc, result, cause,
                   envVars, stageVars, jobVars, stepVars, unitEv, anyDeclared,
                   absorbed, runs>>

CliNext ==
    \/ MainOptions
    \/ DetectPipelineTypeInteractive
    \/ CreateRunner
    \/ GitHubRunnerExecute
    \/ AzureRunnerExecute
    \/ CodeMagicRunnerExecute
    \/ MainExit

CliSpec == CliInit /\ [][CliNext]_vars

\* ------------------------------- the workflow files of a GitHub project
\* GitHubActionsRunner.execute with the two directories it searches.

\* a directory of workflow files: absent, or the base names readdirSync lists
DirSet ==
    {[exists |-> FALSE, names |-> <<>>]} \cup
    {[exists |-> TRUE, names |-> s] :
        s \in {q \in UNION {[1..n -> WorkflowNames] : n \in 0..2} :
                  \A i, j \in 1..Len(q) : q[i] = q[j] => i = j}}

\* what execute finds on disk: `file` is the base name of the input path when
\* that is an existing .yml file ("none": a directory); `below` is
\* <inputPath>/.github/workflows, `beside` is <dirname(inputPath)>/.github/workflows,
\* and `same` says that both paths name one directory (path.dirname(".") is ".")
DiskSet ==
    {t \in [file : {"none"} \cup WorkflowNames, same : BOOLEAN,
            below : DirSet, beside : DirSet] :
        /\ (t.file # "none") => (~t.same /\ ~t.below.exists)
        /\ t.same => (t.beside = t.below)}

\* the workflow files of one of the two directories, as paths
FilesOf(t, which) ==
    [k \in 1..Len(t[which].names) |->
        [dir |-> IF t.same THEN "below" ELSE which, name |-> t[which].names[k]]]

\* no workflow file
NoWorkflowFile == [dir |-> "none", name |-> "none"]

\* the first file of a list with the base name `target`
RECURSIVE FindNamed(_, _, _)
FindNamed(files, target, k) ==
    IF k > Len(files) THEN NoWorkflowFile
    ELSE IF files[k].name = target THEN files[k]
    ELSE FindNamed(files, target, k + 1)

\* GitHubActionsRunner.findAllWorkflowFiles: files.push(...dirFiles) for each
\* of the two directories
FindAllWorkflowFiles(t) == FilesOf(t, "below") \o FilesOf(t, "beside")

\* GitHubActionsRunner.findWorkflowFile, one iteration of the loop over
\* workflowDirs: the file named like the target, else the first file
FindInDir(t, target, which) ==
    LET files == FilesOf(t, which)
        named == IF target = "none" THEN NoWorkflowFile
                 ELSE FindNamed(files, target, 1)
    IN IF named # NoWorkflowFile THEN named
       ELSE IF Len(files) > 0 THEN files[1]
       ELSE NoWorkflowFile

\* GitHubActionsRunner.findWorkflowFile
FindWorkflowFileOnDisk(t, target) ==
    IF t.file # "none" THEN [dir |-> "input", name |-> t.file]
    ELSE IF FindInDir(t, target, "below") # NoWorkflowFile
    THEN FindInDir(t, target, "below")
    ELSE FindInDir(t, target, "beside")

\* GitHubActionsRunner.execute(inputPath, workflow): the file it settles on,
\* whether the selector was consulted, the candidates it listed, and the run.
\* answer is the position the selector returns (0: the prompt threw)
GitHubExecuteOnDisk(rs, d, t, parses, target, answer) ==
    LET all == FindAllWorkflowFiles(t)
        asked == target = "none" /\ Len(all) > 1
        wf == IF asked
              THEN (IF answer = 0 THEN NoWorkflowFile ELSE all[answer])
              ELSE FindWorkflowFileOnDisk(t, target)
        none == [trace |-> <<>>, result |-> "false", runner |-> rs]
    IN [path |-> wf, asked |-> asked, all |-> all,
        run |-> IF wf = NoWorkflowFile \/ ~parses THEN none
                ELSE GitHubExecute(rs, d, <<Listed(d.list)>>)]

FindInit ==
    /\ vendor = "github"
    /\ doc \in RerunDocSet("github", 1)
    /\ InitRunner
    /\ NoDetection
    /\ NoRerun
    /\ args \in {a \in ArgSet : a.type = PipelineType.GITHUB_ACTIONS /\ a.mode = "run"}
    /\ tree \in DiskSet
    /\ cli = Absent
    /\ calls = Absent

\* runner.execute(inputPath, workflow) of a GitHubActionsRunner on the disk `tree`
FindExecute ==
    /\ pc = "start"
    /\ pc' = "done"
    /\ \E parses \in BOOLEAN, answer \in 0..Len(FindAllWorkflowFiles(tree)) :
        /\ (answer # 0) => (args.workflow = "none" /\ Len(FindAllWorkflowFiles(tree)) > 1)
        /\ calls' = GitHubExecuteOnDisk(FreshRunner, doc, tree, parses,
                                        args.workflow, answer)
    /\ UNCHANGED <<docVars, detectVars, rerunVars, cliVars, result, cause, envVars,
                   stageVars, jobVars, stepVars, unitEv, anyDeclared, absorbed, runs>>

FindNext == FindExecute

FindSpec == FindInit /\ [][FindNext]_vars

\* --------------------------------------- execSync and its options
\* what a script does once it is handed to execSync: it exits with 0, exits
\* with another code, cannot be started, exits with 0 after running longer
\* than any declared timeout, or exits with 0 after writing more output than
\* maxBuffer holds
Behaviours == Outcomes \cup {"slow", "flood"}

\* `timeout-minutes` / `timeoutInMinutes` / `max_build_duration` of a document
Timeouts == {Undef, "1"}

\* variant: the declared timeout is handed to execSync
ExecSyncOptionsTimed(verbose, declared) ==
    [stdio |-> IF verbose THEN "inherit" ELSE "pipe", timeout |-> declared]

\* executeScript / executeScriptContent: const options = {cwd, env, stdio, encoding}
ExecSyncOptions(verbose, declared) ==
    [stdio |-> IF verbose THEN "inherit" ELSE "pipe", timeout |-> Undef]

\* execSync(script, options) for a script of behaviour b: a child that
\* outlives options.timeout is killed, one that overflows the pipe buffer is
\* killed, and both make execSync throw as a non-zero exit does
ExecSync(b, options) ==
    CASE b = "slow" -> IF options.timeout # Undef THEN "nonzero" ELSE "ok"
      [] b = "flood" -> IF options.stdio = "pipe" THEN "nonzero" ELSE "ok"
      [] OTHER -> b

\* the steps of a document with the behaviour of each script
OptionItemSet(v) ==
    {[it EXCEPT !.outcome = b] :
        it \in {i \in RerunItemSet(v) : i.outcome = "ok"}, b \in Behaviours}
    \cup {i \in RerunItemSet(v) : i.outcome = "none"}

\* the well-formed documents of vendor v, with a declared timeout or none
OptionDocSet(v) ==
    {[d EXCEPT !.list = l, !.timeout = t] :
        d \in RerunDocSet(v, 0),
        l \in UNION {[1..m -> OptionItemSet(v)] : m \in 0..MaxSteps},
        t \in Timeouts}

\* the document with the outcome execSync has for each script
Spawned(d, verbose) ==
    [d EXCEPT !.list =
        [k \in DOMAIN d.list |->
            [d.list[k] EXCEPT !.outcome =
                IF @ = "none" THEN "none"
                ELSE ExecSync(@, ExecSyncOptions(verbose, d.timeout))]]]

\* execute of a runner constructed with `verbose`
ExecuteUnder(v, rs, d, verbose) == Execute(v, rs, Spawned(d, verbose), "none")

\* variant: artifacts and publishing are simulated whatever executeScripts returns
CodeMagicWorkflowPhasesAlways(rs, w) ==
    LET env == SetupMobileEnvironment(SetupEnvironment(rs.environment, w), w)
        r == IF ~w.scripts THEN [trace |-> <<>>, result |-> "throw"]
             ELSE CodeMagicExecuteScriptsFrom(w, w.list, 1, env, rs.scriptDefinitions)
    IN <<"setupEnvironment", "setupMobileEnvironment">>
       \o [k \in 1..Len(r.trace) |-> "script"]
       \o (IF r.result = "throw" THEN <<>>
           ELSE <<"simulateArtifacts", "simulatePublishing">>)

\* CodeMagicRunner.executeWorkflow on the workflow w: the calls it makes, in
\* order, with one entry for every entry of `scripts` that executeScripts visits
CodeMagicWorkflowPhases(rs, w) ==
    LET env == SetupMobileEnvironment(SetupEnvironment(rs.environment, w), w)
        r == IF ~w.scripts THEN [trace |-> <<>>, result |-> "throw"]
             ELSE CodeMagicExecuteScriptsFrom(w, w.list, 1, env, rs.scriptDefinitions)
    IN <<"setupEnvironment", "setupMobileEnvironment">>
       \o [k \in 1..Len(r.trace) |-> "script"]
       \o (IF r.result = "true" THEN <<"simulateArtifacts", "simulatePublishing">>
           ELSE <<>>)

\* the calls of executeWorkflow in a quiet run of d by a fresh runner
PhasesOf(v, d) ==
    IF v = "codemagic" /\ d.workflows
    THEN CodeMagicWorkflowPhases(
             [FreshRunner EXCEPT !.scriptDefinitions = ParseScriptDefinitions({}, d)],
             Spawned(d, FALSE))
    ELSE <<>>

OptionInit ==
    /\ vendor \in Vendors
    /\ doc \in OptionDocSet(vendor)
    /\ InitRunner
    /\ NoDetection
    /\ NoRerun
    /\ NoCommandLine
    /\ calls = Absent

\* the document is executed quietly, verbosely, and quietly with another
\* declared timeout
ExecuteUnderOptions ==
    /\ pc = "start"
    /\ pc' = "done"
    /\ \E t \in Timeouts \ {doc.timeout} :
         calls' = [plain |-> ExecuteUnder(vendor, FreshRunner, doc, FALSE),
                   verbose |-> ExecuteUnder(vendor, FreshRunner, doc, TRUE),
                   timed |-> ExecuteUnder(vendor, FreshRunner,
                                          [doc EXCEPT !.timeout = t], FALSE),
                   phases |-> PhasesOf(vendor, doc)]
    /\ UNCHANGED <<docVars, detectVars, rerunVars, cliVars, result, cause, envVars,
                   stageVars, jobVars, stepVars, unitEv, anyDeclared, absorbed, runs>>

OptionNext == ExecuteUnderOptions

OptionSpec == OptionInit /\ [][OptionNext]_vars

TypeOK ==
    /\ vendor \in Vendors
    /\ pc \in {"start", "stages", "jobs", "steps", "done"}
    /\ result \in {"none", "true", "false"}
    /\ cause \in {"none", "step", "throw"}
    /\ si \in 0..nStages /\ ji \in 0..nJobs /\ ti \in 0..nSteps
\* ---------------------------------------------------------------- claims
\* the last step visited ran a script that failed
ScriptFailed == last.ran /\ last.outcome # "ok"

\* the units of the document are explicit (a job, or a stage of jobs)
HasUnits == vendor = "github" \/ (vendor = "azure" /\ AzureRoot(doc) \in {"stages", "jobs"})

\* the value a workflow-level block gives to key k
WorkflowVar(k) ==
    CASE vendor = "github" -> doc.env[k]
      [] vendor = "azure" -> IF doc.variables.present THEN doc.variables.vars[k] ELSE Undef
      [] OTHER -> Undef

\* C1: in every vendor, after a script step without continueOnError=true has
\* failed, the run is over with result false, the loop of its unit never went
\* past that step, and the unit that contains it is reported as failed.
C1_FailingStepHaltsUnit ==
    (ScriptFailed /\ ~last.step.continueOnError) =>
        /\ pc = "done"
        /\ result = "false"
        /\ last.i = StepIndex(ti, nSteps)
        /\ HasUnits => /\ unitEv.ev \in {"jobFail", "stageFail"}
                       /\ unitEv.j = JobIndex(ji, nJobs)

\* a failing step that is not the last declared step of its unit
C1_Witness ==
    /\ ScriptFailed /\ ~last.step.continueOnError
    /\ last.i > 1 /\ last.i < nSteps
    /\ pc = "done"

\* C2: after a script step with continueOnError=true has failed, the run has
\* not ended and the loop of its unit stands right behind that step, so the
\* step declared next is the next one visited.
C2_ContinueOnErrorDoesNotHalt ==
    (ScriptFailed /\ last.step.continueOnError) =>
        /\ pc = "steps"
        /\ result = "none"
        /\ cause = "none"
        /\ last.i = StepIndex(ti, nSteps)

\* [A(ok), B(fails, continueOnError), C(ok)]: C has just run and succeeded
C2_Witness ==
    /\ vendor = "azure" /\ AzureRoot(doc) = "steps"
    /\ absorbed
    /\ last.i = 3 /\ last.ran /\ last.outcome = "ok"

C4_StepsInDeclarationOrder ==
    [][(ti' = ti + 1) => (last'.i = last.i + 1 /\ last'.i = ti')]_vars

\* the last declared step of a full-length unit has been visited
C4_Witness ==
    /\ last.i = MaxSteps /\ ti = MaxSteps /\ last.ran

\* C5 as stated: a variable defined at workflow level and in the step's env
\* has the step's value in that step's process environment, and the workflow's
\* value in a step (of a unit without that variable) that does not define it.
C5_StepEnvOverridesWorkflowEnv ==
    (last.ran /\ vendor \in {"github", "azure"} /\ WorkflowVar("FOO") # Undef) =>
        /\ last.step.env["FOO"] # Undef => last.env["FOO"] = last.step.env["FOO"]
        /\ (last.step.env["FOO"] = Undef /\ curJob.env["FOO"] = Undef
              /\ curStage.env["FOO"] = Undef) => last.env["FOO"] = WorkflowVar("FOO")

\* C6 as stated: a variable defined on the job or stage is in the environment
\* of every script step of that unit (with the unit's value unless the step
\* overrides it), and a unit without it sees the workflow-level value.
C6_UnitEnvLayer ==
    (last.ran /\ vendor \in {"github", "azure"} /\ last.step.env["FOO"] = Undef) =>
        /\ curJob.env["FOO"] # Undef => last.env["FOO"] = curJob.env["FOO"]
        /\ (curJob.env["FOO"] = Undef /\ curStage.env["FOO"] # Undef)
              => last.env["FOO"] = curStage.env["FOO"]
        /\ (curJob.env["FOO"] = Undef /\ curStage.env["FOO"] = Undef)
              => last.env["FOO"] = WorkflowVar("FOO")

\* C7 as stated: no script runs for a step whose condition is false, nor for a
\* step of a job or stage whose condition is false.
C7_FalseConditionSkips ==
    last.ran =>
        /\ last.step.condition # "false"
        /\ curJob.condition # "false"
        /\ curStage.condition # "false"

\* C8: a failed job ends the run at once with result false (its stage and the
\* pipeline fail with it, no later job or stage is started), and the run
\* returns true only after every declared job and stage was run without one
\* of them failing.
C8_CompositeShortCircuit ==
    /\ unitEv.ev \in {"jobFail", "stageFail"} => (pc = "done" /\ result = "false")
    /\ (cause = "step" /\ HasUnits) =>
            /\ unitEv.ev \in {"jobFail", "stageFail"}
            /\ unitEv.j = ji
    /\ result = "true" =>
            /\ unitEv.ev \notin {"jobFail", "stageFail", "jobStart", "stageStart"}
            /\ cause = "none"
            /\ vendor = "github" => ji = nJobs
            /\ (vendor = "azure" /\ AzureRoot(doc) = "stages") => si = nStages

\* the first job of the first stage failed; a second job and a second stage
\* are declared and were never started
C8_Witness ==
    /\ unitEv = UnitEv("stageFail", 1, 1)
    /\ nJobs = 2 /\ nStages = 2
    /\ pc = "done"

C10_ZeroStepsSucceeds ==
    /\ ~anyDeclared => (last = NoLast /\ ~absorbed)
    /\ (pc = "done" /\ ~anyDeclared /\ cause # "throw") => result = "true"

\* a job with an empty step list completed and the run returned true
C10_Witness ==
    /\ pc = "done" /\ ~anyDeclared /\ result = "true"
    /\ unitEv.ev = "jobOk"

\* a `$(Name)` token of a script text: "$(", a word, ")"
TokenAt(text, i) ==
    /\ i + 2 <= Len(text)
    /\ text[i] = "$(" /\ text[i + 1] \in Words /\ text[i + 2] = ")"

\* Name is a variable the run has resolved
Resolved(vs, n) == n \in Keys /\ vs[n] # Undef

\* the text in which every token of a resolved variable is replaced by the
\* variable's value and everything else is kept
RECURSIVE Substituted(_, _, _)
Substituted(text, i, vs) ==
    IF i > Len(text) THEN <<>>
    ELSE IF TokenAt(text, i) /\ Resolved(vs, text[i + 1])
    THEN <<vs[text[i + 1]]>> \o Substituted(text, i + 3, vs)
    ELSE <<text[i]>> \o Substituted(text, i + 1, vs)

\* C11 as stated: the text an Azure script step runs is its script text with
\* every `$(Name)` token of a resolved variable replaced by the variable's
\* value, every other token and all text outside tokens left as written.
C11_TokensSubstituted ==
    (vendor = "azure" /\ last.ran) =>
        last.script = Substituted(doc.text, 1, variables)

\* C12 as stated: whether or not the pipeline declares `variables`, a
\* `$(Build.SourcesDirectory)` token of a script step is replaced by the
\* working-directory path.
C12_AgentVariablesResolved ==
    (vendor = "azure" /\ last.ran
        /\ doc.text = <<"$(", "Build.SourcesDirectory", ")">>) =>
            last.script = <<"cwd">>

\* C13 as stated: a `scripts` entry `*name` whose name is not in the
\* definitions table runs nothing, counts as completed, and the workflow goes
\* on with the entry declared next.
C13_UndefinedReferenceSkipped ==
    (vendor = "codemagic" /\ last.i > 0 /\ last.step.form = "ref"
        /\ last.step.ref \notin scriptDefinitions) =>
            /\ ~last.ran /\ last.ok
            /\ pc = "steps" /\ result = "none"
            /\ last.i = ti

\* the last step visited carries a platform action (`uses` / `task`)
IsPlatformAction ==
    \/ vendor = "github" /\ last.step.uses
    \/ vendor = "azure" /\ last.step.task

\* C14: a GitHub step with `uses` and an Azure step with `task` never reach
\* the script executor, count as success, and leave the loop of their unit
\* right behind them, whatever else the step carries.
C14_PlatformActionSimulated ==
    (last.i > 0 /\ IsPlatformAction) =>
        /\ ~last.ran /\ last.outcome = "none" /\ last.script = <<>>
        /\ last.ok
        /\ pc = "steps" /\ result = "none"
        /\ last.i = ti

\* an Azure step with `task` and `script` was simulated and a step follows
C14_Witness ==
    /\ vendor = "azure" /\ last.i > 0
    /\ last.step.task /\ last.step.script
    /\ ~last.ran /\ ti < nSteps

\* C15: a GitHub step with `uses` is simulated even when it carries `run`;
\* without `uses`, a step with `run` runs its script; a step with neither
\* runs nothing and counts as success.
C15_GitHubStepClassification ==
    (vendor = "github" /\ last.i > 0) =>
        /\ last.step.uses => (last.kind = "PlatformAction" /\ ~last.ran)
        /\ (~last.step.uses /\ last.step.run) =>
                (last.kind = "Script" /\ last.ran /\ last.outcome \in Outcomes)
        /\ (~last.step.uses /\ ~last.step.run) =>
                /\ last.kind = "Empty" /\ ~last.ran
                /\ last.ok /\ pc = "steps" /\ result = "none"

\* a GitHub step with both `uses` and `run` was simulated
C15_Witness ==
    /\ vendor = "github" /\ last.i > 0
    /\ last.step.uses /\ last.step.run
    /\ last.kind = "PlatformAction"

\* one of script / bash / powershell is set on the last step visited
HasScriptField == last.step.script \/ last.step.bash \/ last.step.powershell

\* C16 as stated: an Azure step runs as a script whenever script, bash or
\* powershell is set, is simulated when task is set, and is empty otherwise.
C16_ScriptWheneverScriptFieldSet ==
    (vendor = "azure" /\ last.i > 0) =>
        /\ HasScriptField => (last.kind = "Script" /\ last.ran)
        /\ last.step.task => (last.kind = "PlatformAction" /\ ~last.ran)
        /\ (~HasScriptField /\ ~last.step.task) => (last.kind = "Empty" /\ ~last.ran)

\* C16 as amended: an Azure step with `task` is simulated even when a script
\* field is set; without `task`, a step with script, bash or powershell runs
\* as a script; a step with none of the four runs nothing and counts as success.
C16_AzureStepClassification ==
    (vendor = "azure" /\ last.i > 0) =>
        /\ last.step.task => (last.kind = "PlatformAction" /\ ~last.ran)
        /\ (~last.step.task /\ HasScriptField) =>
                (last.kind = "Script" /\ last.ran /\ last.outcome \in Outcomes)
        /\ (~last.step.task /\ ~HasScriptField) =>
                /\ last.kind = "Empty" /\ ~last.ran
                /\ last.ok /\ pc = "steps" /\ result = "none"

\* a step with only `bash` set ran as a script
C16_Witness ==
    /\ vendor = "azure" /\ last.ran
    /\ last.step.bash /\ ~last.step.script /\ ~last.step.powershell
    /\ ~last.step.task

\* C17: for a step list S, the pipelines steps: S, jobs: [{steps: S}] and
\* stages: [{jobs: [{steps: S}]}] visit the same steps with the same
\* environment, script text and outcome and return the same value; each takes
\* the traversal of its root, and a pipeline that declares all three roots
\* runs the stages traversal alone.
C17_RootShapesEquivalent ==
    (runs # NoRuns) =>
        /\ runs.steps.root = "steps"
        /\ runs.jobs.root = "jobs"
        /\ runs.stages.root = "stages"
        /\ runs.jobs.trace = runs.steps.trace
        /\ runs.jobs.result = runs.steps.result
        /\ runs.stages.trace = runs.steps.trace
        /\ runs.stages.result = runs.steps.result
        /\ runs.all = runs.stages

\* [A(ok), B(fails)]: every shape ran A and B and returned false
C17_Witness ==
    /\ Len(runs.stages.trace) = 2
    /\ runs.stages.trace[2].outcome = "nonzero"
    /\ runs.steps.result = "false" /\ runs.jobs.result = "false"
    /\ runs.stages.result = "false"

\* the document lacks the root its vendor requires
RootAbsent ==
    CASE vendor = "github" -> ~doc.jobs
      [] vendor = "azure" -> AzureRoot(doc) = "none"
      [] vendor = "codemagic" -> ~doc.workflows

\* C18 as stated: a run over a document without `jobs` (GitHub), without
\* stages, jobs and steps (Azure), or without `workflows` (CodeMagic) does
\* not return success.
C18_MissingRootFails ==
    (pc = "done" /\ RootAbsent) => result = "false"

\* C19 as stated: when a run ends on a malformed unit (a list the traversal
\* needs is absent), no unit with declared steps was traversed before it.
C19_NoPartialExecution ==
    cause = "throw" => ~anyDeclared

\* C20 as stated: after a script step for which the shell could not be
\* started, the run is over with result false, continueOnError or not.
C20_LaunchErrorAborts ==
    (last.ran /\ last.outcome = "nostart") =>
        (pc = "done" /\ result = "false")

\* C23: whenever a script step of any vendor runs, every variable of the host
\* process's ambient environment is a key of the environment the script's
\* process is given.
C23_AmbientNeverDropped ==
    last.ran => \A k \in Keys : processEnv[k] # Undef => last.env[k] # Undef

\* a CodeMagic script ran with a workflow variable next to the ambient ones
C23_Witness ==
    /\ vendor = "codemagic" /\ last.ran
    /\ last.env["FOO"] = "workflow" /\ last.env["PATH"] = "ambient"


\* the keys k of the decoded file whose value is set
HasKey(k) == k \in file.keys

\* the vendor the content rules name for the file detected
ByContent ==
    IF HasKey("on") /\ HasKey("jobs") THEN PipelineType.GITHUB_ACTIONS
    ELSE IF (HasKey("trigger") \/ HasKey("pool") \/ HasKey("stages")) /\ ~HasKey("on")
    THEN PipelineType.AZURE_DEVOPS
    ELSE IF HasKey("workflows") \/ HasKey("definitions") THEN PipelineType.CODEMAGIC
    ELSE PipelineType.UNKNOWN

\* C30 as stated: for an existing file the file-name and location tests
\* decide when they give an answer, and otherwise the content decides: `on`
\* and `jobs` give GitHub-Actions; `trigger`, `pool` or `stages` without `on`
\* give Azure-DevOps, also next to `jobs`; `workflows` or `definitions` give
\* CodeMagic; anything else is Unknown.
C30_DetectionOrder ==
    (detected # "none" /\ file.exists) =>
        IF DetectFromFileName(file) # "none"
        THEN detected = DetectFromFileName(file)
        ELSE IF file.parse = "object" THEN detected = ByContent
        ELSE detected = PipelineType.UNKNOWN


\* the build-directory variables setupEnvironment synthesizes
BuildDirKeys == {"CM_BUILD_DIR", "CM_BUILD_OUTPUT_DIR", "FCI_BUILD_DIR"}

\* C27 as stated: the environment of every CodeMagic script step, the first
\* one included, holds every `environment.vars` entry of the workflow and the
\* three build-directory variables, whether or not the workflow declares an
\* `environment` block.
C27_EnvironmentComposed ==
    (vendor = "codemagic" /\ last.ran) =>
        /\ \A k \in BuildDirKeys : last.env[k] # Undef
        /\ \A k \in Keys :
              (doc.environment.present /\ doc.environment.vars[k] # Undef)
                  => last.env[k] = doc.environment.vars[k]


\* the workflow that differs from the document's in `flutter` alone
FlutterTwin == [doc EXCEPT !.flutter = ~doc.flutter]

\* the environment executeWorkflow prepares for the scripts of workflow d
WorkflowScriptEnv(d) ==
    CodeMagicScriptEnv(SetupMobileEnvironment(SetupEnvironment(EmptyMap, d), d))

\* C26 as stated: a CodeMagic script step runs with the environment it would
\* have in the workflow that differs in a mobile-toolchain field (`flutter`)
\* alone.
C26_ToolchainFieldsInert ==
    (vendor = "codemagic" /\ last.ran) => last.env = WorkflowScriptEnv(FlutterTwin)


\* C24: an Azure pipeline executed with a workflow name visits the same steps
\* in the same order, with the same environments, script texts and outcomes,
\* and returns the same value as the pipeline executed without one.
C24_AzureWorkflowNameIgnored ==
    (vendor = "azure" /\ reruns # NoReruns) =>
        /\ reruns.targeted.trace = reruns.first.trace
        /\ reruns.targeted.result = reruns.first.result
        /\ reruns.targeted.runner = reruns.first.runner

\* [A(ok), B(fails)] was executed with the workflow name "build": A and B were
\* visited and the run returned false
C24_Witness ==
    /\ vendor = "azure" /\ reruns.target = "build"
    /\ Len(reruns.targeted.trace) = 2
    /\ reruns.targeted.trace[1].ran /\ reruns.targeted.trace[1].ok
    /\ reruns.targeted.trace[2].ran /\ ~reruns.targeted.trace[2].ok
    /\ reruns.targeted.result = "false"

\* the result structure of a call of execute: the steps visited, in order,
\* with the path each took, and the value returned
Structure(e) ==
    [steps |-> [i \in 1..Len(e.trace) |-> [i |-> e.trace[i].i, kind |-> e.trace[i].kind]],
     result |-> e.result]

\* C28: a well-formed document executed a second time, by the runner that
\* executed it before and with the same script outcomes, gives the result
\* structure of the first execution: the same steps in the same order and
\* the same success value.
C28_RerunSameStructure ==
    (reruns # NoReruns) => Structure(reruns.again) = Structure(reruns.first)

\* a CodeMagic file that defines `build` was executed twice: both times the
\* `*build` entry ran as a script and the script behind it failed
C28_Witness ==
    /\ vendor = "codemagic" /\ doc.definitions = {"build"}
    /\ Len(reruns.again.trace) = 2
    /\ reruns.again.trace[1].step.form = "ref" /\ reruns.again.trace[1].ran
    /\ ~reruns.again.trace[2].ok
    /\ reruns.again.result = "false"
    /\ reruns.first.runner # FreshRunner

\* C29 as stated: a document executed by a runner that executed another
\* document before visits the steps, with the environments, script texts and
\* outcomes, returns the value and leaves the resolved variables, environment
\* and script-definitions table that it does on a freshly created runner.
C29_NoStateAcrossRuns ==
    (reruns # NoReruns) =>
        /\ reruns.second.trace = reruns.fresh.trace
        /\ reruns.second.result = reruns.fresh.result
        /\ reruns.second.runner = reruns.fresh.runner


\* C21 as stated: when the selector was consulted and answered "none
\* selected", no step is executed, execute does not return false and the
\* process does not exit with code 1.
C21_NoneSelectedIsNoOp ==
    (cli.pc = "exited" /\ cli.asked # "none" /\ cli.answer = "none") =>
        /\ cli.run.trace = <<>>
        /\ cli.run.result # "false"
        /\ cli.exitCode # 1

\* C22 as stated: once main has ended on a command line that asks for a run,
\* the exit code is 0 when execute returned success and 1 on every other
\* path, the ones on which no runner was started included.
C22_ExitCodeReflectsOutcome ==
    (cli.pc = "exited" /\ args.mode = "run") =>
        cli.exitCode = IF cli.run.result = "true" THEN 0 ELSE 1

\* C25: an execute of the CodeMagic runner runs at most one workflow of the
\* file and no script outside of it: the target when it is given and exists;
\* none, with result false, when it is given and does not exist; the only
\* workflow when none is given and the file has one; the selector's choice
\* when none is given and the file has several.
C25_OneWorkflowSelected ==
    (cli.pc = "executed" /\ cli.pipelineType = PipelineType.CODEMAGIC) =>
        LET t == args.workflow
            ns == cli.names
        IN /\ cli.ran \in ns \cup {"none"}
           /\ (cli.ran = "none") => (cli.run.trace = <<>>)
           /\ (t # "none" /\ t \in ns) => (cli.ran = t)
           /\ (t # "none" /\ t \notin ns) =>
                  (cli.ran = "none" /\ cli.run.result = "false")
           /\ (t = "none" /\ Cardinality(ns) = 1) => (cli.ran \in ns)
           /\ (t = "none" /\ Cardinality(ns) > 1) =>
                  (cli.asked = "workflow" /\ cli.ran = cli.answer)

\* a file with the workflows build and deploy was run with --workflow deploy:
\* deploy ran a script, the selector was not asked
C25_Witness ==
    /\ cli.pc = "executed" /\ cli.pipelineType = PipelineType.CODEMAGIC
    /\ cli.names = WorkflowNames /\ args.workflow = "deploy"
    /\ cli.ran = "deploy" /\ cli.asked = "none"
    /\ Len(cli.run.trace) = 1 /\ cli.run.trace[1].ran


\* C31: two documents that differ only in the declared timeout execute the
\* same steps in the same order, each with the same outcome, and return the
\* same result: no script is cancelled or failed because of the timeout.
C31_TimeoutsInformational ==
    (calls # Absent) =>
        /\ calls.timed.trace = calls.plain.trace
        /\ calls.timed.result = calls.plain.result

\* a document that declares a timeout and whose first script outlives it is
\* run to the end of a list of two steps
C31_Witness ==
    /\ calls # Absent
    /\ doc.timeout # Undef
    /\ Len(doc.list) = 2
    /\ doc.list[1].outcome = "slow"
    /\ Len(calls.plain.trace) = 2
    /\ calls.plain.trace[1].ran
    /\ calls.plain.result = "true"


\* the candidate workflow files hold one with the base name of --workflow
TargetExists ==
    \E k \in 1..Len(calls.all) : calls.all[k].name = args.workflow

\* C32: with a workflow name given, a name no candidate file carries makes
\* execute run nothing and return false, and a name some candidate carries
\* makes execute settle on a file of that name.
C32_TargetWorkflowOnly ==
    (calls # Absent /\ args.workflow # "none") =>
        /\ ~TargetExists =>
              /\ calls.path = NoWorkflowFile
              /\ calls.run.trace = <<>>
              /\ calls.run.result = "false"
        /\ TargetExists => calls.path.name = args.workflow


\* C38: the candidate list holds no workflow file twice, and the selector is
\* consulted only when the list holds at least two different files.
C38_SelectorNeedsTwoFiles ==
    (calls # Absent) =>
        /\ \A i, j \in 1..Len(calls.all) : calls.all[i] = calls.all[j] => i = j
        /\ calls.asked =>
              Cardinality({calls.all[k] : k \in 1..Len(calls.all)}) >= 2


\* the units execute visits in a document of the vendor at hand: the two jobs
\* of a GitHub workflow, else the one step list
UnitsOf(d) == IF vendor = "github" THEN 2 ELSE 1

\* C33: when execute returns true, the visited steps are all the declared
\* steps of every unit, in declaration order, and the visited steps that ran
\* no script are those classified Empty (an unresolved CodeMagic reference
\* among them) or PlatformAction.
C33_SuccessMeansFullTraversal ==
    (reruns # Absent /\ pc = "done" /\ reruns.first.result = "true") =>
        LET tr == reruns.first.trace
            n == Len(doc.list)
        IN /\ Len(tr) = UnitsOf(doc) * n
           /\ \A k \in 1..Len(tr) :
                 /\ tr[k].i = ((k - 1) % n) + 1
                 /\ tr[k].step = doc.list[tr[k].i].step
                 /\ ~tr[k].ran => tr[k].kind \in {"Empty", "PlatformAction"}
                 /\ tr[k].ran => tr[k].outcome = doc.list[tr[k].i].outcome

\* a successful run of three steps: a script, a step that runs nothing, a script
C33_Witness ==
    /\ reruns # Absent /\ pc = "done"
    /\ reruns.first.result = "true"
    /\ Len(doc.list) = 3
    /\ Len(reruns.first.trace) >= 3
    /\ reruns.first.trace[1].ran
    /\ ~reruns.first.trace[2].ran
    /\ reruns.first.trace[3].ran


\* C34 as stated: execute ends with a boolean; an error thrown by the
\* traversal (a list that is absent) ends the run with false; and a script
\* that throws before any process runs (the shell cannot be started, or
\* execSync is handed no command) makes its step return false and the run
\* end with false.
C34_ErrorsBecomeFalse ==
    /\ pc = "done" => result \in {"true", "false"}
    /\ cause = "throw" => (pc = "done" /\ result = "false")
    /\ (last.ran /\ last.outcome \in {"nostart", "invalid"}) =>
           (~last.ok /\ pc = "done" /\ result = "false")


\* C35: every run ends with a boolean result, and while it runs the position
\* in the step list of the unit at hand never passes the number of declared
\* steps and moves on by one with every step visited, so no declared step is
\* executed twice.
C35_RunTerminates ==
    /\ <>(pc = "done" /\ result \in {"true", "false"})
    /\ [](ti <= nSteps /\ (last.ran => last.i = ti))
    /\ [][ti' # ti => (ti' = ti + 1 \/ ti' = 0)]_vars

\* the third of three steps has run its script and the run goes on to its end
C35_Witness ==
    /\ pc # "done"
    /\ last.ran /\ last.i = 3 /\ nSteps = 3 /\ ti = 3


\* what a call of execute handed to execSync, step by step: the command and
\* the environment (the working directory is the same for every step)
Commands(e) ==
    [k \in 1..Len(e.trace) |->
        [i |-> e.trace[k].i, ran |-> e.trace[k].ran,
         script |-> e.trace[k].script, env |-> e.trace[k].env]]

\* C36 as stated: a runner constructed with verbose = true and one
\* constructed with verbose = false visit the same steps of a document in
\* the same order, hand the same commands and environments to execSync, and
\* return the same result, whatever the scripts do.
C36_VerboseInert ==
    (calls # Absent) =>
        /\ Commands(calls.verbose) = Commands(calls.plain)
        /\ calls.verbose.result = calls.plain.result


\* the position of the first entry of a sequence that equals x, 0 when none does
RECURSIVE PositionFrom(_, _, _)
PositionFrom(s, x, k) ==
    IF k > Len(s) THEN 0
    ELSE IF s[k] = x THEN k
    ELSE PositionFrom(s, x, k + 1)

\* C37: a CodeMagic workflow run sets up the environment, then the mobile
\* environment, then visits its scripts, then simulates artifacts, then
\* publishing; the two simulations come after every script, happen only when
\* every entry of `scripts` was visited and none failed, and do not happen
\* when a script failed.
C37_PhaseOrder ==
    (calls # Absent /\ vendor = "codemagic") =>
        LET ph == calls.phases
            tr == calls.plain.trace
            art == PositionFrom(ph, "simulateArtifacts", 1)
            pub == PositionFrom(ph, "simulatePublishing", 1)
        IN /\ ph[1] = "setupEnvironment"
           /\ ph[2] = "setupMobileEnvironment"
           /\ \A k \in 3..Len(ph) : ph[k] = "script" => (art = 0 \/ k < art)
           /\ (art = 0) <=> (pub = 0)
           /\ art # 0 =>
                 /\ pub = art + 1 /\ pub = Len(ph)
                 /\ Len(tr) = Len(doc.list)
                 /\ \A k \in 1..Len(tr) : tr[k].ok
           /\ (\E k \in 1..Len(tr) : ~tr[k].ok) => art = 0

\* two scripts ran and succeeded, then artifacts and publishing were simulated
C37_Witness ==
    /\ calls # Absent /\ vendor = "codemagic"
    /\ Len(doc.list) = 2
    /\ calls.plain.result = "true"
    /\ calls.plain.trace[1].ran /\ calls.plain.trace[2].ran
    /\ calls.phases = <<"setupEnvironment", "setupMobileEnvironment", "script",
                        "script", "simulateArtifacts", "simulatePublishing">>


\* positions i..j of a text are a match of /\$\(([^)]+)\)/
MatchAt(text, i, j) ==
    /\ 1 <= i /\ i + 2 <= j /\ j <= Len(text)
    /\ text[i] = "$(" /\ text[j] = ")"
    /\ \A k \in (i + 1)..(j - 1) : text[k] # ")"

\* a text holds a `$(...)` token
HasToken(text) == \E i, j \in 1..Len(text) : MatchAt(text, i, j)

\* no value of a variable holds a `$(...)` token
NoValueHasToken == \A k \in Keys : variables[k] # Undef => ~HasToken(StringOf(variables[k]))

\* no value of a variable holds the opening "$(" of a token
NoValueOpensToken ==
    \A k \in Keys : variables[k] # Undef =>
        \A i \in 1..Len(StringOf(variables[k])) : StringOf(variables[k])[i] # "$("

\* the text is the token of one variable that has a value
OneToken(text) == Len(text) = 3 /\ TokenAt(text, 1) /\ Resolved(variables, text[2])

====
